---------------------------- MODULE Spec2Model ----------------------------
(***************************************************************************)
(* mcp-meet: availability computation (computeCommonFree), the contiguous  *)
(* span picker (pickContiguous), the plan_and_schedule / find_slots tool   *)
(* handlers, the attendee resolver (resolveToEmail,                        *)
(* resolveAttendeesToEmails) and the account store with its token refresh  *)
(* (getGoogle, saveTokens, removeAccount, setDefaultAccount,               *)
(* authenticateAccount, resolveAccount).                                   *)
(*                                                                         *)
(* Instants are integers: milliseconds since the epoch, as Date.getTime(). *)
(* An ISO-8601 string is represented by the instant it parses to, so a     *)
(* formatter is modelled by the precision it keeps: date-fns formatISO     *)
(* prints whole seconds, Date.prototype.toISOString prints milliseconds.   *)
(* A JavaScript string is a sequence of one-character strings.             *)
(***************************************************************************)
EXTENDS Integers, Sequences, FiniteSets, TLC

VARIABLES
    op,          \* tool handler that ran last: "idle" between calls
    window,      \* [start, end]: the parsed windowStartISO / windowEndISO
    busyMap,     \* calendar id -> set of busy intervals (freeBusy response)
    slotMin,     \* slotMinutes handed to computeCommonFree
    duration,    \* durationMinutes of plan_and_schedule (0 when not used)
    grid,        \* sequence returned by computeCommonFree
    pick,        \* value returned by pickContiguous
    reply        \* what the handler answered

VARIABLES
    entries,     \* namesOrEmails of the resolveAttendeesToEmails call in progress
    task,        \* per entry: the promise of its map callback
    values,      \* Promise.all's array of fulfilment values, by input index
    outcome,     \* the promise resolveAttendeesToEmails returned
    warned,      \* the duplicates listed by console.warn
    completed    \* the entries' indices in the order their callbacks settled

VARIABLES
    file,        \* the document at TOK_PATH (tokens.json)
    clientCache, \* email -> credentials of the cached client's OAuth2 object
    proc,        \* per caller: the account operation it has in progress
    started,     \* number of account operations called so far
    sel          \* the resolveAccount call in progress

VARIABLES
    retry        \* the retryWithBackoff call in progress

VARIABLES
    tool         \* the MCP tool call in progress: its collaborator calls and reply

VARIABLES
    create       \* the createMeetEvent call in progress and the events it left

availVars == <<op, window, busyMap, slotMin, duration, grid, pick, reply>>
resolveVars == <<entries, task, values, outcome, warned, completed>>
storeVars == <<file, clientCache, proc, started, sel>>
retryVars == <<retry>>
toolVars == <<tool>>
createVars == <<create>>
vars == <<availVars, resolveVars, storeVars, retryVars, toolVars, createVars>>

-----------------------------------------------------------------------------
(* Time                                                                    *)

MsPerMinute == 60 * 1000

\* date-fns addMinutes: exact millisecond arithmetic on the timestamp
addMinutes(t, m) == t + m * MsPerMinute

\* date-fns formatISO(date): "yyyy-MM-ddTHH:mm:ss" plus the zone offset; the
\* milliseconds of the date are not printed.  The value is the instant the
\* printed string denotes.
formatISO(t) == t - (t % 1000)

\* Date.prototype.toISOString prints the milliseconds: the instant is kept.
toISOString(t) == t

\* date-fns areIntervalsOverlapping(left, right), default (non-inclusive)
areIntervalsOverlapping(left, right) ==
    left.start < right.end /\ right.start < left.end


-----------------------------------------------------------------------------
(* availability: computeCommonFree                                         *)

\* one iteration of: for (t = windowStart; t < windowEnd; t = addMinutes(t, slotMinutes))
RECURSIVE computeCommonFreeLoop(_, _, _, _, _)
computeCommonFreeLoop(t, windowEnd, busyMaps, slotMinutes, slots) ==
    IF ~(t < windowEnd)
    THEN slots
    ELSE LET end == addMinutes(t, slotMinutes)
             slot == [start |-> t, end |-> end]
             overlaps == \E id \in DOMAIN busyMaps :
                            \E b \in busyMaps[id] : areIntervalsOverlapping(slot, b)
         IN  computeCommonFreeLoop(
                 addMinutes(t, slotMinutes), windowEnd, busyMaps, slotMinutes,
                 IF overlaps
                 THEN slots
                 ELSE Append(slots, [startISO |-> formatISO(t),
                                     endISO   |-> formatISO(end)]))

computeCommonFree(windowStart, windowEnd, busyMaps, slotMinutes) ==
    computeCommonFreeLoop(windowStart, windowEnd, busyMaps, slotMinutes, <<>>)

-----------------------------------------------------------------------------
(* index.ts: pickContiguous and the validators                             *)

NotFound == [found |-> FALSE, startISO |-> 0, endISO |-> 0]

\* mutant of pickContiguousLoop: a slot that is not adjacent is merged as well
RECURSIVE pickContiguousLoopAcrossGaps(_, _, _, _, _)
pickContiguousLoopAcrossGaps(slots, i, accStart, accEnd, neededMs) ==
    IF i > Len(slots)
    THEN <<accStart, accEnd>>
    ELSE pickContiguousLoopAcrossGaps(slots, i + 1, accStart, slots[i].endISO,
                                      neededMs)

\* the for loop of pickContiguous from index i on; the value is <<accStart, accEnd>>
RECURSIVE pickContiguousLoop(_, _, _, _, _)
pickContiguousLoop(slots, i, accStart, accEnd, neededMs) ==
    IF i > Len(slots)
    THEN <<accStart, accEnd>>
    ELSE LET prevEnd   == accEnd
             nextStart == slots[i].startISO
             nextEnd   == slots[i].endISO
         IN  IF nextStart = prevEnd
             THEN pickContiguousLoop(slots, i + 1, accStart, nextEnd, neededMs)
             ELSE IF accEnd - accStart >= neededMs
                  THEN <<accStart, accEnd>>
                  ELSE pickContiguousLoop(slots, i + 1, nextStart, nextEnd, neededMs)

\* mutant of pickContiguous: the whole merged run is returned, not clipped
pickContiguousWholeRun(slots, durationMinutes) ==
    IF Len(slots) = 0
    THEN NotFound
    ELSE LET neededMs == durationMinutes * MsPerMinute
             acc == pickContiguousLoop(slots, 2, slots[1].startISO,
                                       slots[1].endISO, neededMs)
         IN  IF acc[2] - acc[1] >= neededMs
             THEN [found    |-> TRUE,
                   startISO |-> toISOString(acc[1]),
                   endISO   |-> toISOString(acc[2])]
             ELSE NotFound

pickContiguous(slots, durationMinutes) ==
    IF Len(slots) = 0
    THEN NotFound
    ELSE LET neededMs == durationMinutes * MsPerMinute
             acc == pickContiguousLoop(slots, 2, slots[1].startISO,
                                       slots[1].endISO, neededMs)
         IN  IF acc[2] - acc[1] >= neededMs
             THEN [found    |-> TRUE,
                   startISO |-> toISOString(acc[1]),
                   endISO   |-> toISOString(acc[1] + neededMs)]
             ELSE NotFound

validateDateRange(start, end) == start < end

\* diffDays = diffMs / (1000 * 60 * 60 * 24); rejected when diffDays > maxDays
\* (quotient and remainder, so that no product leaves the 32-bit integers)
validateTimeWindow(start, end, maxDays) ==
    LET diffMs == end - start
        dayMs  == 24 * 60 * MsPerMinute
    IN  ~(\/ diffMs \div dayMs > maxDays
          \/ diffMs \div dayMs = maxDays /\ diffMs % dayMs > 0)

validateDuration(durationMinutes) ==
    durationMinutes >= 1 /\ durationMinutes <= 1440

Min(a, b) == IF a < b THEN a ELSE b
Max(a, b) == IF a > b THEN a ELSE b

\* Math.min(30, Math.max(5, Math.floor(durationMinutes / 6)))
tryMinutes(durationMinutes) == Min(30, Max(5, durationMinutes \div 6))

\* slots.slice(0, n)
Slice(s, n) == SubSeq(s, 1, Min(n, Len(s)))


-----------------------------------------------------------------------------
(* Inputs of the tool handlers                                             *)

MaxBusy == 2    \* busy intervals in one freeBusy response

\* process.env.CALENDAR_IDS || 'primary', then the attendees' emails
Calendars == {"primary", "attendee"}

WindowStarts   == {0, 500}
WindowMinutes  == {0, 7, 10, 20, 40}
BusyInstants   == {0, 500, 2 * MsPerMinute, 8 * MsPerMinute, 10 * MsPerMinute}
Durations      == {3, 5, 10, 36, 1441}
SlotMinutesArg == {5, 30}

BusyIntervals ==
    {iv \in [start : BusyInstants, end : BusyInstants] : iv.start < iv.end}

BusyEntries == Calendars \X BusyIntervals

RECURSIVE SubsetsUpTo(_, _)
SubsetsUpTo(S, k) ==
    IF k = 0
    THEN {{}}
    ELSE LET P == SubsetsUpTo(S, k - 1)
         IN  P \cup {p \cup {x} : p \in P, x \in S}

\* the responses of freeBusy after googleFreeBusyToBusyMap
BusyMaps ==
    {[id \in Calendars |-> {e[2] : e \in {x \in es : x[1] = id}}] :
        es \in SubsetsUpTo(BusyEntries, MaxBusy)}

NoBusy == [id \in Calendars |-> {}]
NoWindow == [start |-> 0, end |-> 0]
NoReply == [kind |-> "none", slots |-> <<>>, mirror |-> FALSE]

AvailIdle ==
    /\ op = "idle"
    /\ window = NoWindow
    /\ busyMap = NoBusy
    /\ slotMin = 0
    /\ duration = 0
    /\ grid = <<>>
    /\ pick = NotFound
    /\ reply = NoReply


-----------------------------------------------------------------------------
(* index.ts tool handlers.  resolveOk, freeBusyOk, createOk and mirrorOk   *)
(* are the outcomes of resolveAttendeesToEmails, freeBusy, createMeetEvent *)
(* and addToAppleCalendar; bm is the freeBusy response.  A handler that    *)
(* throws answers with an error.                                           *)

Answer(kind) == [kind |-> kind, slots |-> <<>>, mirror |-> FALSE]

\* find_slots
FindSlots ==
    /\ op = "idle"
    /\ \E ws \in WindowStarts, wm \in WindowMinutes, sm \in SlotMinutesArg :
         LET we == addMinutes(ws, wm)
         IN  /\ op' = "find_slots"
             /\ window' = [start |-> ws, end |-> we]
             /\ slotMin' = sm
             /\ duration' = 0
             /\ pick' = NotFound
             /\ IF validateDateRange(ws, we) /\ validateTimeWindow(ws, we, 90)
                THEN \/ \E bm \in BusyMaps :
                          LET slots == computeCommonFree(ws, we, bm, sm)
                          IN  /\ busyMap' = bm
                              /\ grid' = slots
                              /\ reply' = [kind |-> "slots",
                                           slots |-> Slice(slots, 50),
                                           mirror |-> FALSE]
                     \/ \E resolveOk \in BOOLEAN :
                          /\ busyMap' = NoBusy
                          /\ grid' = <<>>
                          /\ reply' = IF resolveOk
                                       THEN Answer("freebusy_error")
                                       ELSE Answer("resolve_error")
                ELSE /\ busyMap' = NoBusy
                     /\ grid' = <<>>
                     /\ reply' = Answer("validation_error")
    /\ UNCHANGED <<resolveVars, storeVars, retryVars, toolVars, createVars>>

\* plan_and_schedule
PlanAndSchedule ==
    /\ op = "idle"
    /\ \E ws \in WindowStarts, wm \in WindowMinutes, d \in Durations :
         LET we == addMinutes(ws, wm)
         IN  /\ op' = "plan_and_schedule"
             /\ window' = [start |-> ws, end |-> we]
             /\ duration' = d
             /\ IF /\ validateDateRange(ws, we)
                   /\ validateTimeWindow(ws, we, 90)
                   /\ validateDuration(d)
                THEN \/ \E bm \in BusyMaps, createOk \in BOOLEAN,
                             mirrorOk \in BOOLEAN :
                          LET slots  == computeCommonFree(ws, we, bm, tryMinutes(d))
                              picked == pickContiguous(slots, d)
                          IN  /\ busyMap' = bm
                              /\ slotMin' = tryMinutes(d)
                              /\ grid' = slots
                              /\ pick' = picked
                              /\ reply' =
                                   IF ~picked.found
                                   THEN Answer("no_slot")
                                   ELSE IF ~createOk
                                   THEN Answer("create_error")
                                   ELSE [kind |-> "scheduled",
                                         slots |-> <<[startISO |-> picked.startISO,
                                                      endISO |-> picked.endISO]>>,
                                         mirror |-> mirrorOk]
                     \/ \E resolveOk \in BOOLEAN :
                          /\ busyMap' = NoBusy
                          /\ slotMin' = 0
                          /\ grid' = <<>>
                          /\ pick' = NotFound
                          /\ reply' = IF resolveOk
                                       THEN Answer("freebusy_error")
                                       ELSE Answer("resolve_error")
                ELSE /\ busyMap' = NoBusy
                     /\ slotMin' = 0
                     /\ grid' = <<>>
                     /\ pick' = NotFound
                     /\ reply' = Answer("validation_error")
    /\ UNCHANGED <<resolveVars, storeVars, retryVars, toolVars, createVars>>

\* the handler has answered; the server waits for the next tool call
AvailReturn ==
    /\ op # "idle"
    /\ op' = "idle"
    /\ window' = NoWindow
    /\ busyMap' = NoBusy
    /\ slotMin' = 0
    /\ duration' = 0
    /\ grid' = <<>>
    /\ pick' = NotFound
    /\ reply' = NoReply
    /\ UNCHANGED <<resolveVars, storeVars, retryVars, toolVars, createVars>>


-----------------------------------------------------------------------------
(* JavaScript strings: sequences of one-character strings                  *)

LowerSeq == <<"a","b","c","d","e","f","g","h","i","j","k","l","m",
              "n","o","p","q","r","s","t","u","v","w","x","y","z">>
UpperSeq == <<"A","B","C","D","E","F","G","H","I","J","K","L","M",
              "N","O","P","Q","R","S","T","U","V","W","X","Y","Z">>
DigitSeq == <<"0","1","2","3","4","5","6","7","8","9">>

Range(f) == {f[i] : i \in DOMAIN f}

AlnumChars == Range(LowerSeq) \cup Range(UpperSeq) \cup Range(DigitSeq)

\* the character class of the local part in emailPattern (its grave accent
\* is left out: it cannot be written in a string here, and no input uses it)
LocalChars ==
    AlnumChars \cup {".", "!", "#", "$", "%", "&", "'", "*", "+", "/", "=",
                     "?", "^", "_", "{", "|", "}", "~", "-"}

WhiteSpace == {" ", "\t", "\n"}

\* String.prototype.toLowerCase, one character
lowerChar(c) ==
    IF \E i \in DOMAIN UpperSeq : UpperSeq[i] = c
    THEN LowerSeq[CHOOSE i \in DOMAIN UpperSeq : UpperSeq[i] = c]
    ELSE c

toLowerCase(str) == [i \in 1..Len(str) |-> lowerChar(str[i])]

\* String.prototype.trim
RECURSIVE trimStart(_)
trimStart(str) ==
    IF Len(str) > 0 /\ str[1] \in WhiteSpace THEN trimStart(Tail(str)) ELSE str

RECURSIVE trimEnd(_)
trimEnd(str) ==
    IF Len(str) > 0 /\ str[Len(str)] \in WhiteSpace
    THEN trimEnd(SubSeq(str, 1, Len(str) - 1))
    ELSE str

trim(str) == trimEnd(trimStart(str))

\* str.split('@')[0]: the text before the first '@' (all of it when there is none)
localPartOf(str) ==
    IF \E i \in 1..Len(str) : str[i] = "@"
    THEN SubSeq(str, 1, (CHOOSE i \in 1..Len(str) :
                            str[i] = "@" /\ \A j \in 1..(i - 1) : str[j] # "@") - 1)
    ELSE str

\* [a-zA-Z0-9](?:[a-zA-Z0-9-]{0,61}[a-zA-Z0-9])?(?:\.[a-zA-Z0-9](?:...)?)*
\* dot-separated labels of 1..63 characters over [a-zA-Z0-9-], none of which
\* starts or ends with a hyphen
domainMatches(dom) ==
    LET n == Len(dom)
    IN  /\ n >= 1
        /\ \A i \in 1..n : dom[i] \in AlnumChars \cup {"-", "."}
        /\ dom[1] \in AlnumChars
        /\ dom[n] \in AlnumChars
        /\ \A i \in 1..n : dom[i] = "." =>
              /\ i > 1 /\ dom[i - 1] \in AlnumChars
              /\ i < n /\ dom[i + 1] \in AlnumChars
        /\ \A i \in 1..(n - 63) : \E k \in i..(i + 63) : dom[k] = "."

\* emailPattern.test(str): ^local+@domain$
emailPatternTest(str) ==
    LET ats == {i \in 1..Len(str) : str[i] = "@"}
    IN  /\ Cardinality(ats) = 1
        /\ LET at == CHOOSE i \in ats : TRUE
               local == SubSeq(str, 1, at - 1)
               dom == SubSeq(str, at + 1, Len(str))
           IN  /\ Len(local) >= 1
               /\ \A i \in 1..Len(local) : local[i] \in LocalChars
               /\ domainMatches(dom)


-----------------------------------------------------------------------------
(* google.ts: searchInvitees, resolveToEmail                               *)

NoAttendee == [email |-> <<>>, hasName |-> FALSE, displayName |-> <<>>]
NoError == [kind |-> "none", input |-> <<>>, candidates |-> <<>>]
NoResponse == [ok |-> FALSE, results |-> <<>>]

Thrown(kind, input, candidates) ==
    [st |-> "rejected", value |-> NoAttendee,
     error |-> [kind |-> kind, input |-> input, candidates |-> candidates]]

Returned(attendee) ==
    [st |-> "fulfilled", value |-> attendee, error |-> NoError]

Awaiting == [st |-> "pending", value |-> NoAttendee, error |-> NoError]

\* searchInvitees on a People API response that arrived: results with a
\* non-empty email, in the order of the response
searchInvitees(results) == SelectSeq(results, LAMBDA r : Len(r.email) > 0)

\* mutant of resolveToEmailStart: an email address is looked up like a name
resolveToEmailStartAlwaysSearches(nameOrEmail) ==
    IF Len(trim(nameOrEmail)) = 0
    THEN Thrown("EmptyInput", trim(nameOrEmail), <<>>)
    ELSE Awaiting

\* resolveToEmail up to its first await: returns, throws, or calls
\* searchInvitees(trimmed, 10) and waits
resolveToEmailStart(nameOrEmail) ==
    LET trimmed == trim(nameOrEmail)
    IN  IF Len(trimmed) = 0
        THEN Thrown("EmptyInput", trimmed, <<>>)
        ELSE IF emailPatternTest(trimmed)
        THEN IF Len(trimmed) > 254
             THEN Thrown("InvalidEmailFormat", trimmed, <<>>)
             ELSE IF Len(localPartOf(trimmed)) > 64
             THEN Thrown("InvalidEmailFormat", trimmed, <<>>)
             ELSE Returned([email |-> toLowerCase(trimmed), hasName |-> FALSE,
                            displayName |-> <<>>])
        ELSE Awaiting

\* mutant of resolveToEmailResume: of several matches the first is taken
resolveToEmailResumeTakesFirst(trimmed, resp) ==
    IF ~resp.ok
    THEN Thrown("SearchFailed", trimmed, <<>>)
    ELSE LET results == searchInvitees(resp.results)
         IN  IF Len(results) >= 1
             THEN Returned([email |-> toLowerCase(results[1].email),
                            hasName |-> TRUE,
                            displayName |-> results[1].name])
             ELSE Thrown("ContactNotFound", trimmed, <<>>)

\* resolveToEmail after the await: resp is what the People API answered
resolveToEmailResume(trimmed, resp) ==
    IF ~resp.ok
    THEN Thrown("SearchFailed", trimmed, <<>>)
    ELSE LET results == searchInvitees(resp.results)
         IN  IF Len(results) = 1
             THEN Returned([email |-> toLowerCase(results[1].email),
                            hasName |-> TRUE,
                            displayName |-> results[1].name])
             ELSE IF Len(results) = 0
             THEN Thrown("ContactNotFound", trimmed, <<>>)
             ELSE Thrown("AmbiguousContact", trimmed, Slice(results, 5))

-----------------------------------------------------------------------------
(* google.ts: resolveAttendeesToEmails                                     *)

\* the loop over `resolved`: emailMap in insertion order, and duplicates
RECURSIVE dedupeLoop(_, _, _, _)
dedupeLoop(resolved, i, emailMap, duplicates) ==
    IF i > Len(resolved)
    THEN [unique |-> emailMap, duplicates |-> duplicates]
    ELSE LET attendee == resolved[i]
             normalizedEmail == toLowerCase(attendee.email)
         IN  IF \E k \in 1..Len(emailMap) :
                    toLowerCase(emailMap[k].email) = normalizedEmail
             THEN dedupeLoop(resolved, i + 1, emailMap,
                             Append(duplicates, attendee.email))
             ELSE dedupeLoop(resolved, i + 1, Append(emailMap, attendee),
                             duplicates)

\* mutant of place: the values are collected in the order of completion
placeInCompletionOrder(vals, i, v) ==
    [vals EXCEPT ![CHOOSE k \in DOMAIN vals :
                      vals[k] = NoAttendee
                      /\ \A j \in 1..(k - 1) : vals[j] # NoAttendee] = v]

\* Promise.all stores a fulfilment value at the index of its promise
place(vals, i, v) == [vals EXCEPT ![i] = v]

\* new Error(`Failed to resolve attendee "${nameOrEmail}": ${message}`)
wrapError(nameOrEmail, error) ==
    [kind |-> "ResolveFailed", input |-> nameOrEmail, cause |-> error]

NoOutcome == [st |-> "idle", attendees |-> <<>>,
              error |-> [kind |-> "none", input |-> <<>>, cause |-> NoError]]

\* Promise.all once every promise is fulfilled, and the code after the await
allFulfilled(J) ==
    LET d == dedupeLoop(J.values, 1, <<>>, <<>>)
    IN  [J EXCEPT !.outcome = [st |-> "fulfilled", attendees |-> d.unique,
                               error |-> NoOutcome.error],
                  !.warned = d.duplicates]

\* mutant of firstRejected: the entries resolved so far are returned
firstRejectedReturnsPartial(J, wrapped) ==
    [J EXCEPT !.outcome =
        [st |-> "fulfilled",
         attendees |-> SelectSeq(J.values, LAMBDA v : v # NoAttendee),
         error |-> wrapped]]

\* Promise.all on the first rejection: resolveAttendeesToEmails rethrows it
firstRejected(J, wrapped) ==
    [J EXCEPT !.outcome = [st |-> "rejected", attendees |-> <<>>,
                           error |-> wrapped]]

\* the map callback of entry i settles with r (a result of resolveToEmail),
\* and Promise.all reacts
settle(J, nameOrEmail, i, r) ==
    LET T == [J EXCEPT !.task[i].st = r.st,
                       !.task[i].value = r.value,
                       !.task[i].error = r.error,
                       !.values = IF r.st = "fulfilled"
                                  THEN place(J.values, i, r.value)
                                  ELSE J.values]
    IN  IF J.outcome.st # "pending"
        THEN T
        ELSE IF r.st = "rejected"
        THEN firstRejected(T, wrapError(nameOrEmail, r.error))
        ELSE IF \A k \in DOMAIN T.task : T.task[k].st = "fulfilled"
        THEN allFulfilled(T)
        ELSE T

\* the synchronous part of namesOrEmails.map(...) and the microtasks that
\* follow: entries that need no lookup settle in input order
RECURSIVE settleSync(_, _, _)
settleSync(J, es, i) ==
    IF i > Len(es)
    THEN J
    ELSE LET r == resolveToEmailStart(es[i])
         IN  settleSync(IF r.st = "pending" THEN J ELSE settle(J, es[i], i, r),
                        es, i + 1)

startAll(es) ==
    [task |-> [i \in 1..Len(es) |->
                 [st |-> "pending",
                  lookups |-> IF resolveToEmailStart(es[i]).st = "pending"
                              THEN 1 ELSE 0,
                  resp |-> NoResponse,
                  value |-> NoAttendee,
                  error |-> NoError]],
     values |-> [i \in 1..Len(es) |-> NoAttendee],
     outcome |-> [NoOutcome EXCEPT !.st = "pending"],
     warned |-> <<>>]


-----------------------------------------------------------------------------
(* Inputs of the resolver                                                  *)

MaxEntries == 2    \* attendees in one resolveAttendeesToEmails call
MaxResults == 6    \* contacts in one People API response (pageSize is 10)

RECURSIVE Rep(_, _)
Rep(c, n) == IF n = 0 THEN <<>> ELSE <<c>> \o Rep(c, n - 1)

InAl        == <<"A", "l">>
InAlMail    == <<" ", "A", "l", "@", "X", ".", "i", "o", " ">>
InBoMail    == <<"b", "o", "@", "x", ".", "i", "o">>
InBlank     == <<" ", "\t">>
InTwoDots   == <<"a", "l", "@", "x", ".", ".", "i", "o">>
InLongLocal == Rep("a", 65) \o <<"@", "x", ".", "i", "o">>
InTooLong   == Rep("a", 64) \o <<"@">> \o Rep("b", 63) \o <<".">>
                 \o Rep("c", 63) \o <<".">> \o Rep("d", 63) \o <<".", "i", "o">>

Inputs == {InAl, InAlMail, InBoMail, InBlank, InTwoDots, InLongLocal, InTooLong}

RECURSIVE SeqsUpTo(_, _)
SeqsUpTo(S, n) ==
    IF n = 0
    THEN {<<>>}
    ELSE LET P == SeqsUpTo(S, n - 1)
         IN  P \cup {Append(q, x) : q \in {p \in P : Len(p) = n - 1}, x \in S}

EntryLists == SeqsUpTo(Inputs, MaxEntries)

\* contacts as searchInvitees reads them: displayName || '', value || ''
Person(k) == [name |-> <<"p", DigitSeq[k]>>,
              email |-> <<"p", DigitSeq[k], "@", "x">>]
PersonAl      == [name |-> <<"A", "l">>,
                  email |-> <<"A", "l", "@", "x", ".", "i", "o">>]
PersonNoEmail == [name |-> <<"C", "y">>, email |-> <<>>]
PersonBadMail == [name |-> <<>>, email |-> <<"B", "o", " ", "<", "b", "@", "x", ">">>]

Responses ==
    {[ok |-> TRUE, results |-> [i \in 1..k |-> Person(i)]] : k \in 0..MaxResults}
      \cup {[ok |-> TRUE, results |-> r] :
               r \in {<<PersonAl>>, <<PersonNoEmail, PersonAl>>, <<PersonNoEmail>>,
                      <<PersonBadMail>>, <<PersonAl, PersonNoEmail, Person(1)>>}}
      \cup {[ok |-> FALSE, results |-> <<>>]}

ResolveIdle ==
    /\ entries = <<>>
    /\ task = <<>>
    /\ values = <<>>
    /\ outcome = NoOutcome
    /\ warned = <<>>
    /\ completed = <<>>

-----------------------------------------------------------------------------
(* resolveAttendeesToEmails as a process                                   *)

\* the call, up to the point where only contact lookups are outstanding
ResolveCall ==
    /\ outcome.st = "idle"
    /\ \E es \in EntryLists :
         /\ entries' = es
         /\ completed' = SelectSeq([i \in 1..Len(es) |-> i],
                LAMBDA i : resolveToEmailStart(es[i]).st # "pending")
         /\ IF Len(es) = 0
            THEN /\ task' = <<>>
                 /\ values' = <<>>
                 /\ warned' = <<>>
                 /\ outcome' = [st |-> "rejected", attendees |-> <<>>,
                                error |-> [kind |-> "EmptyAttendeeList",
                                           input |-> <<>>, cause |-> NoError]]
            ELSE LET J == settleSync(startAll(es), es, 1)
                 IN  /\ task' = J.task
                     /\ values' = J.values
                     /\ outcome' = J.outcome
                     /\ warned' = J.warned
    /\ UNCHANGED <<availVars, storeVars, retryVars, toolVars, createVars>>

\* the People API answers the lookup of entry i; resolveToEmail resumes
LookupReturns ==
    /\ \E i \in DOMAIN task, resp \in Responses :
         /\ task[i].st = "pending"
         /\ LET J0 == [task |-> [task EXCEPT ![i].resp = resp],
                       values |-> values, outcome |-> outcome, warned |-> warned]
                J == settle(J0, entries[i], i,
                            resolveToEmailResume(trim(entries[i]), resp))
            IN  /\ task' = J.task
                /\ values' = J.values
                /\ outcome' = J.outcome
                /\ warned' = J.warned
                /\ completed' = Append(completed, i)
    /\ UNCHANGED <<entries, availVars, storeVars, retryVars, toolVars, createVars>>

\* the caller has the result and every lookup has answered
ResolveDone ==
    /\ outcome.st \in {"fulfilled", "rejected"}
    /\ \A i \in DOMAIN task : task[i].st # "pending"
    /\ entries' = <<>>
    /\ task' = <<>>
    /\ values' = <<>>
    /\ outcome' = NoOutcome
    /\ warned' = <<>>
    /\ completed' = <<>>
    /\ UNCHANGED <<availVars, storeVars, retryVars, toolVars, createVars>>

-----------------------------------------------------------------------------
(* google.ts: the token store (tokens.json)                                *)

\* null and undefined.  The code tests emails and labels for truthiness only
\* (accountEmail || ..., label || ..., !store.defaultAccount); the empty
\* string is not drawn as an email or a label.
Null == <<>>

\* the reserved key '_legacy_'
Legacy == <<"_", "l", "e", "g", "a", "c", "y", "_">>

\* Credentials.  access_token 0 is "no credentials" (null); expiry_date 0 is
\* an absent expiry, which is how the code reads it (!credentials.expiry_date)
NoTokens == [access_token |-> 0, expiry_date |-> 0]

\* A TokenStore in memory: accounts is the sequence of the entries of the
\* object in its key order (insertion order, which JSON.stringify and
\* JSON.parse keep), each entry with its key
EmptyStore == [accounts |-> <<>>, defaultAccount |-> Null]

\* the document on disk: absent, the flat single-account format, or a
\* serialized TokenStore
NoFile == [format |-> "none", tokens |-> NoTokens, accounts |-> <<>>,
           defaultAccount |-> Null]

LegacyFile(tokens) == [format |-> "legacy", tokens |-> tokens, accounts |-> <<>>,
                       defaultAccount |-> Null]

isLegacyFormat(data) == data.format = "legacy"

loadTokenStore(data) ==
    IF data.format = "none"
    THEN EmptyStore
    ELSE IF isLegacyFormat(data)
    THEN [accounts |-> <<[email |-> Legacy, label |-> Null,
                          tokens |-> data.tokens]>>,
          defaultAccount |-> Legacy]
    ELSE [accounts |-> data.accounts, defaultAccount |-> data.defaultAccount]

\* the document fs.writeFile leaves: JSON.stringify(store)
saveTokenStore(store) ==
    [format |-> "store", tokens |-> NoTokens, accounts |-> store.accounts,
     defaultAccount |-> store.defaultAccount]

\* Object.keys(accounts)
Keys(accounts) == [k \in 1..Len(accounts) |-> accounts[k].email]

\* accounts[email] is defined
Has(accounts, email) == \E k \in 1..Len(accounts) : accounts[k].email = email

IndexOf(accounts, email) == CHOOSE k \in 1..Len(accounts) : accounts[k].email = email

\* accounts[email]?.label
LabelOf(accounts, email) ==
    IF Has(accounts, email) THEN accounts[IndexOf(accounts, email)].label ELSE Null

\* accounts[email]?.tokens || null
TokensOf(accounts, email) ==
    IF Has(accounts, email) THEN accounts[IndexOf(accounts, email)].tokens
    ELSE NoTokens

\* mutant of Put: the entry replaces the whole mapping
PutAlone(accounts, entry) == <<entry>>

\* accounts[email] = entry: an existing key keeps its place, a new one is last
Put(accounts, entry) ==
    IF Has(accounts, entry.email)
    THEN [accounts EXCEPT ![IndexOf(accounts, entry.email)] = entry]
    ELSE Append(accounts, entry)

\* delete accounts[email]
Delete(accounts, email) == SelectSeq(accounts, LAMBDA a : a.email # email)

\* loadTokens(email) on the store just loaded
loadTokens(store, email) ==
    LET targetEmail == IF email # Null THEN email ELSE store.defaultAccount
    IN  IF targetEmail = Null THEN NoTokens
        ELSE TokensOf(store.accounts, targetEmail)

\* mutant of saveTokensUpdate: the first account is not made the default
saveTokensUpdateNoDefault(store, tokens, email, label) ==
    LET s1 == IF Has(store.accounts, Legacy) /\ email # Legacy
              THEN [accounts |-> Delete(store.accounts, Legacy),
                    defaultAccount |-> IF store.defaultAccount = Legacy
                                       THEN email ELSE store.defaultAccount]
              ELSE store
        entry == [email |-> email,
                  label |-> IF label # Null THEN label
                            ELSE LabelOf(s1.accounts, email),
                  tokens |-> tokens]
    IN  [s1 EXCEPT !.accounts = Put(s1.accounts, entry)]

\* mutant of saveTokensUpdate: the placeholder entry is left in the store
saveTokensUpdateKeepsLegacy(store, tokens, email, label) ==
    LET entry == [email |-> email,
                  label |-> IF label # Null THEN label
                            ELSE LabelOf(store.accounts, email),
                  tokens |-> tokens]
        s2 == [store EXCEPT !.accounts = Put(store.accounts, entry)]
    IN  IF s2.defaultAccount = Null \/ s2.defaultAccount = Legacy
        THEN [s2 EXCEPT !.defaultAccount = email]
        ELSE s2

\* mutant of saveTokensUpdate: the saved account becomes the default
saveTokensUpdateMakesDefault(store, tokens, email, label) ==
    LET s1 == IF Has(store.accounts, Legacy) /\ email # Legacy
              THEN [accounts |-> Delete(store.accounts, Legacy),
                    defaultAccount |-> IF store.defaultAccount = Legacy
                                       THEN email ELSE store.defaultAccount]
              ELSE store
        entry == [email |-> email,
                  label |-> IF label # Null THEN label
                            ELSE LabelOf(s1.accounts, email),
                  tokens |-> tokens]
        s2 == [s1 EXCEPT !.accounts = Put(s1.accounts, entry)]
    IN  [s2 EXCEPT !.defaultAccount = email]

\* mutant of saveTokensUpdate: a save without label clears the label
saveTokensUpdateDropsLabel(store, tokens, email, label) ==
    LET s1 == IF Has(store.accounts, Legacy) /\ email # Legacy
              THEN [accounts |-> Delete(store.accounts, Legacy),
                    defaultAccount |-> IF store.defaultAccount = Legacy
                                       THEN email ELSE store.defaultAccount]
              ELSE store
        entry == [email |-> email, label |-> label, tokens |-> tokens]
        s2 == [s1 EXCEPT !.accounts = Put(s1.accounts, entry)]
    IN  IF s2.defaultAccount = Null \/ s2.defaultAccount = Legacy
        THEN [s2 EXCEPT !.defaultAccount = email]
        ELSE s2

\* saveTokens between its load and its write
saveTokensUpdate(store, tokens, email, label) ==
    LET s1 == IF Has(store.accounts, Legacy) /\ email # Legacy
              THEN [accounts |-> Delete(store.accounts, Legacy),
                    defaultAccount |-> IF store.defaultAccount = Legacy
                                       THEN email ELSE store.defaultAccount]
              ELSE store
        entry == [email |-> email,
                  label |-> IF label # Null THEN label
                            ELSE LabelOf(s1.accounts, email),
                  tokens |-> tokens]
        s2 == [s1 EXCEPT !.accounts = Put(s1.accounts, entry)]
    IN  IF s2.defaultAccount = Null \/ s2.defaultAccount = Legacy
        THEN [s2 EXCEPT !.defaultAccount = email]
        ELSE s2

\* mutant of removeAccountUpdate: the default is left as it was
removeAccountUpdateKeepsDefault(store, email) ==
    [accounts |-> Delete(store.accounts, email),
     defaultAccount |-> store.defaultAccount]

\* mutant of removeAccountUpdate: removing the default leaves no default
removeAccountUpdateDropsDefault(store, email) ==
    [accounts |-> Delete(store.accounts, email),
     defaultAccount |-> IF store.defaultAccount = email THEN Null
                        ELSE store.defaultAccount]

\* removeAccount between its load and its write, for a key that exists
removeAccountUpdate(store, email) ==
    LET accounts == Delete(store.accounts, email)
        remaining == SelectSeq(Keys(accounts), LAMBDA e : e # Legacy)
    IN  [accounts |-> accounts,
         defaultAccount |-> IF store.defaultAccount = email
                            THEN IF Len(remaining) > 0 THEN remaining[1] ELSE Null
                            ELSE store.defaultAccount]

\* setDefaultAccount between its load and its write, for a key that exists
setDefaultAccountUpdate(store, email) == [store EXCEPT !.defaultAccount = email]

-----------------------------------------------------------------------------
(* google.ts: resolveAccountHint, resolveAccount                           *)

\* the least element of a non-empty set of indices
First(S) == CHOOSE k \in S : \A j \in S : k <= j

\* email.split('@')[1]?.toLowerCase(): the text between the first '@' and the
\* next one, lowercased; Null when there is no '@' (undefined) or nothing
\* follows it ('', which the code also reads as no domain)
domainOf(email) ==
    LET ats == {k \in 1..Len(email) : email[k] = "@"}
    IN  IF ats = {}
        THEN Null
        ELSE LET i == First(ats)
                 later == {k \in ats : k > i}
                 j == IF later = {} THEN Len(email) + 1 ELSE First(later)
             IN  toLowerCase(SubSeq(email, i + 1, j - 1))

\* the Map domainCounts after the loop over attendeeEmails
domainCounts(attendeeEmails) ==
    LET domains == {domainOf(attendeeEmails[k]) : k \in 1..Len(attendeeEmails)}
                     \ {Null}
    IN  [d \in domains |->
            Cardinality({k \in 1..Len(attendeeEmails) :
                            domainOf(attendeeEmails[k]) = d})]

\* resolveAccountHint(hint) on the store it loaded
resolveAccountHint(store, hint) ==
    IF Has(store.accounts, hint)
    THEN hint
    ELSE LET byLabel == {k \in 1..Len(store.accounts) :
                           /\ store.accounts[k].label # Null
                           /\ toLowerCase(store.accounts[k].label)
                                = toLowerCase(hint)}
         IN  IF byLabel # {}
             THEN store.accounts[First(byLabel)].email
             ELSE Null

\* mutant of inferByDomain: the account whose domain counts most attendees
inferByDomainWeighted(accounts, counts) ==
    LET matching == {k \in 1..Len(accounts) :
                       /\ domainOf(accounts[k].email) # Null
                       /\ domainOf(accounts[k].email) \in DOMAIN counts}
    IN  IF matching = {}
        THEN Null
        ELSE accounts[CHOOSE k \in matching :
                        \A j \in matching :
                            counts[domainOf(accounts[j].email)]
                              <= counts[domainOf(accounts[k].email)]].email

\* the loop "for (const [accountEmail] of accounts)": Null when it ends
\* without a return
inferByDomain(accounts, counts) ==
    LET matching == {k \in 1..Len(accounts) :
                       /\ domainOf(accounts[k].email) # Null
                       /\ domainOf(accounts[k].email) \in DOMAIN counts}
    IN  IF matching = {} THEN Null ELSE accounts[First(matching)].email

\* mutant of resolveAccount: a hint that matches no account gives null
resolveAccountStrictHint(store, hintStore, hint, attendeeEmails) ==
    LET accounts == SelectSeq(store.accounts, LAMBDA a : a.email # Legacy)
    IN  IF Len(accounts) = 0
        THEN Null
        ELSE IF hint # Null
        THEN resolveAccountHint(hintStore, hint)
        ELSE IF Len(accounts) = 1
        THEN accounts[1].email
        ELSE store.defaultAccount

\* resolveAccount(hint, attendeeEmails): store is what resolveAccount loaded,
\* hintStore what resolveAccountHint loaded after it
resolveAccount(store, hintStore, hint, attendeeEmails) ==
    LET accounts == SelectSeq(store.accounts, LAMBDA a : a.email # Legacy)
        resolved == IF hint # Null THEN resolveAccountHint(hintStore, hint)
                    ELSE Null
        inferred == IF Len(attendeeEmails) > 0
                    THEN inferByDomain(accounts, domainCounts(attendeeEmails))
                    ELSE Null
    IN  IF Len(accounts) = 0
        THEN Null
        ELSE IF resolved # Null
        THEN resolved
        ELSE IF Len(accounts) = 1
        THEN accounts[1].email
        ELSE IF inferred # Null
        THEN inferred
        ELSE store.defaultAccount

-----------------------------------------------------------------------------
(* google.ts: refreshTokensIfNeeded, and the inputs of the account store   *)

bufferTime == 5 * 60 * 1000

\* mutant of refreshNeeded: a token that expires in exactly bufferTime is refreshed too
refreshNeededInclusive(credentials, now) ==
    /\ credentials.expiry_date # 0
    /\ credentials.expiry_date - now <= bufferTime

\* the test of refreshTokensIfNeeded: an expiry is set and is less than
\* bufferTime away
refreshNeeded(credentials, now) ==
    /\ credentials.expiry_date # 0
    /\ credentials.expiry_date - now < bufferTime

\* the callers whose account operations can be in flight at the same time
Procs == {1, 2}

MaxCalls == 3      \* account operations called in one behaviour

EmailAl == <<"a", "l", "@", "x", ".", "i", "o">>
EmailBo == <<"b", "o", "@", "y", ".", "i", "o">>
Emails  == {EmailAl, EmailBo}

LabelWork == <<"W", "o", "r", "k">>
Labels    == {Null, LabelWork}

\* readings of Date.now()
Nows == {1000000, 1000001}

\* expiry_date of stored credentials: none, or bufferTime after the earlier
\* reading of the clock (and less than bufferTime after the later one)
Expiries == {0, 1000000 + bufferTime}

\* credentials as the OAuth flow or the legacy file provides them
IssuedTokens == {[access_token |-> 1, expiry_date |-> x] : x \in Expiries}

\* credentials returned by oauth2.refreshAccessToken() to caller p: a new
\* access token that expires an hour after the later reading of the clock
newCredentials(p) == [access_token |-> 1 + p, expiry_date |-> 1000001 + 60 * MsPerMinute]

\* what refreshTokensIfNeeded did: the expiry and the clock it compared, and
\* the persisted store and the operation's writes at that moment
NoRefresh == [st |-> "none", expiry_date |-> 0, now |-> 0, writes |-> 0,
              store |-> EmptyStore]
NoResult  == [kind |-> "none", email |-> Null]

\* a caller with no operation in progress
IdleProc ==
    [op      |-> "idle",     \* exported function that was called
     pc      |-> "idle",     \* the await the operation is suspended at
     email   |-> Null,       \* accountEmail, targetEmail, email or emailHint
     label   |-> Null,       \* label argument
     tokens  |-> NoTokens,   \* credentials of the operation's OAuth2 object
     legacy  |-> NoTokens,   \* the placeholder's credentials, once identified
     cached  |-> FALSE,      \* getGoogle took its client from the cache
     shared  |-> FALSE,      \* that object is the one the client cache holds
     loaded  |-> EmptyStore, \* the store as the pending mutation loaded it
     store   |-> EmptyStore, \* the store the pending mutation writes
     after   |-> "none",     \* where the operation continues after saveTokens
     refresh |-> NoRefresh,  \* what refreshTokensIfNeeded did
     writes  |-> 0,          \* documents written by the operation
     calls   |-> 0,          \* calendar and contacts requests sent
     result  |-> NoResult]   \* what the operation returned or threw

\* credentials that expire bufferTime after the earlier reading of the clock
ExpiringTokens == [access_token |-> 1, expiry_date |-> 1000000 + bufferTime]

\* documents of earlier runs: one account, and two of which the second is
\* labelled
StoreAl ==
    [accounts |-> <<[email |-> EmailAl, label |-> Null,
                     tokens |-> ExpiringTokens]>>,
     defaultAccount |-> EmailAl]
StoreAlBo ==
    [accounts |-> <<[email |-> EmailAl, label |-> Null,
                     tokens |-> ExpiringTokens],
                    [email |-> EmailBo, label |-> LabelWork,
                     tokens |-> ExpiringTokens]>>,
     defaultAccount |-> EmailAl]

\* tokens.json when the process starts: absent, written before multi-account
\* support, or written by an earlier run
InitialFiles ==
    {NoFile} \cup {LegacyFile(t) : t \in IssuedTokens}
      \cup {saveTokenStore(StoreAl), saveTokenStore(StoreAlBo)}

StoreIdle ==
    /\ file \in InitialFiles
    /\ clientCache = [e \in {} |-> NoTokens]
    /\ proc = [p \in Procs |-> IdleProc]
    /\ started = 0

\* clientCache.has(email)
Cached(email) == email \in DOMAIN clientCache

\* clientCache.set(email, clients), clients.auth holding these credentials
CacheSet(cache, email, credentials) ==
    [e \in DOMAIN cache \cup {email} |->
        IF e = email THEN credentials ELSE cache[e]]

\* clientCache.delete(email)
CacheDelete(cache, email) == [e \in DOMAIN cache \ {email} |-> cache[e]]

\* oauth2.credentials of the object caller p holds
credentialsOf(p) ==
    IF proc[p].shared THEN clientCache[proc[p].email] ELSE proc[p].tokens

\* the other callers lose the cache's object for email when the entry is
\* replaced or deleted: each keeps its own object with the credentials it had
Unshare(procs, p, email) ==
    [q \in Procs |->
        IF q # p /\ procs[q].shared /\ procs[q].email = email
        THEN [procs[q] EXCEPT !.shared = FALSE, !.tokens = clientCache[email]]
        ELSE procs[q]]

-----------------------------------------------------------------------------
(* google.ts: getGoogle, and an exported operation that uses it.  An       *)
(* action is the code that runs once an awaited file or network operation  *)
(* has completed, up to the next such await.  The GOOGLE_* environment     *)
(* variables are set.                                                      *)

staticVars == <<availVars, resolveVars, sel, retryVars, toolVars, createVars>>
otherVars == <<started, staticVars>>

\* getGoogle returns clients: the client is cached under targetEmail unless
\* it came from the cache; freeBusy goes on to send its calendar request
Finish(p, r) ==
    LET ret == [r EXCEPT !.pc = IF r.op = "freeBusy" THEN "request" ELSE "done",
                         !.calls = IF r.op = "freeBusy" THEN 1 ELSE 0,
                         !.result = [kind |-> "clients", email |-> r.email]]
    IN  IF r.cached
        THEN /\ proc' = [proc EXCEPT ![p] = ret]
             /\ UNCHANGED clientCache
        ELSE /\ clientCache' = CacheSet(clientCache, r.email, r.tokens)
             /\ proc' = [Unshare(proc, p, r.email) EXCEPT
                            ![p] = [ret EXCEPT !.shared = TRUE]]

\* refreshTokensIfNeeded(oauth2, targetEmail) up to its await, and what
\* follows it in getGoogle when it returns at once
Continue(p, r, now, data) ==
    LET credentials == IF r.shared THEN clientCache[r.email] ELSE r.tokens
        tested == [st |-> "skipped", expiry_date |-> credentials.expiry_date,
                   now |-> now, writes |-> r.writes,
                   store |-> loadTokenStore(data)]
    IN  IF refreshNeeded(credentials, now)
        THEN /\ proc' = [proc EXCEPT ![p] =
                           [r EXCEPT !.pc = "refreshing",
                                     !.refresh = [tested EXCEPT !.st = "called"]]]
             /\ UNCHANGED clientCache
        ELSE Finish(p, [r EXCEPT !.refresh = tested])

\* getGoogle(accountEmail) is called: directly with an email, or without one
\* by an exported operation such as freeBusy
GetGoogleCall(p) ==
    /\ proc[p].op = "idle"
    /\ started < MaxCalls
    /\ started' = started + 1
    /\ \E accountEmail \in Emails \cup {Null} :
         proc' = [proc EXCEPT ![p] =
                    [IdleProc EXCEPT !.op = IF accountEmail = Null
                                            THEN "freeBusy" ELSE "getGoogle",
                                     !.pc = "loadStore",
                                     !.email = accountEmail]]
    /\ UNCHANGED <<file, clientCache, staticVars>>

\* loadTokenStore() of getGoogle has completed: the cache is consulted
GetGoogleLoaded(p) ==
    /\ proc[p].pc = "loadStore"
    /\ proc[p].op \in {"getGoogle", "freeBusy"}
    /\ LET store == loadTokenStore(file)
           targetEmail == IF proc[p].email # Null THEN proc[p].email
                          ELSE store.defaultAccount
           r == [proc[p] EXCEPT !.email = targetEmail,
                                !.label = LabelOf(store.accounts, Legacy)]
       IN  IF targetEmail # Null /\ Cached(targetEmail)
           THEN \E now \in Nows :
                    Continue(p, [r EXCEPT !.cached = TRUE, !.shared = TRUE], now,
                             file)
           ELSE /\ proc' = [proc EXCEPT ![p] =
                              [r EXCEPT !.pc = IF targetEmail # Null
                                               THEN "loadTokens"
                                               ELSE "interactive"]]
                /\ UNCHANGED clientCache
    /\ UNCHANGED <<file, otherVars>>

\* loadTokens(targetEmail) of getGoogle has completed
GetGoogleTokensLoaded(p) ==
    /\ proc[p].pc = "loadTokens"
    /\ proc[p].op \in {"getGoogle", "freeBusy"}
    /\ LET tokens == loadTokens(loadTokenStore(file), proc[p].email)
           r == [proc[p] EXCEPT !.tokens = tokens]
       IN  IF tokens = NoTokens
           THEN /\ proc' = [proc EXCEPT ![p] = [r EXCEPT !.pc = "interactive"]]
                /\ UNCHANGED clientCache
           ELSE IF proc[p].email = Legacy
           THEN /\ proc' = [proc EXCEPT ![p] = [r EXCEPT !.pc = "identify"]]
                /\ UNCHANGED clientCache
           ELSE \E now \in Nows : Continue(p, r, now, file)
    /\ UNCHANGED <<file, otherVars>>

\* fetchAuthenticatedUserEmail has answered for the legacy credentials: with
\* an email the account is saved under it (targetEmail is assigned when the
\* save has completed; nothing reads it in between), without one the
\* placeholder stays the target
IdentityReturns(p) ==
    /\ proc[p].pc = "identify"
    /\ \E actualEmail \in Emails \cup {Null} :
         IF actualEmail # Null
         THEN /\ proc' = [proc EXCEPT ![p].pc = "saveLoad",
                                      ![p].email = actualEmail,
                                      ![p].legacy = proc[p].tokens,
                                      ![p].after = "migrated"]
              /\ UNCHANGED clientCache
         ELSE \E now \in Nows : Continue(p, proc[p], now, file)
    /\ UNCHANGED <<file, otherVars>>

\* interactiveAuth: the browser flow has delivered tokens and
\* fetchAuthenticatedUserEmail has answered
InteractiveReturns(p) ==
    /\ proc[p].pc = "interactive"
    /\ \E tokens \in IssuedTokens, email \in Emails \cup {Null} :
         IF email = Null
         THEN proc' = [proc EXCEPT ![p].pc = "done",
                                   ![p].result = [kind |-> "no_email_error",
                                                  email |-> Null]]
         ELSE proc' = [proc EXCEPT ![p].pc = "saveLoad",
                                   ![p].tokens = tokens,
                                   ![p].email = email,
                                   ![p].after = "authenticated"]
    /\ UNCHANGED <<file, clientCache, otherVars>>

\* mutant of RefreshReturns: a failed refresh is ignored and getGoogle goes on
\* with the credentials it had
RefreshReturnsIgnoringFailure(p) ==
    /\ proc[p].pc = "refreshing"
    /\ \E ok \in BOOLEAN :
         IF ok
         THEN /\ proc' = [proc EXCEPT ![p].pc = "saveLoad",
                                      ![p].tokens = newCredentials(p),
                                      ![p].label = Null,
                                      ![p].after = "refreshed",
                                      ![p].refresh.st = "answered"]
              /\ clientCache' = IF proc[p].shared
                                THEN [clientCache EXCEPT ![proc[p].email] =
                                                            newCredentials(p)]
                                ELSE clientCache
         ELSE Finish(p, [proc[p] EXCEPT !.refresh.st = "failed"])
    /\ UNCHANGED <<file, otherVars>>

\* oauth2.refreshAccessToken() has answered: on success the credentials are
\* set on the OAuth2 object and saved, on failure the operation throws
\* "Token refresh failed for <accountEmail>. Please re-authenticate ..."
RefreshReturns(p) ==
    /\ proc[p].pc = "refreshing"
    /\ \E ok \in BOOLEAN :
         IF ok
         THEN /\ proc' = [proc EXCEPT ![p].pc = "saveLoad",
                                      ![p].tokens = newCredentials(p),
                                      ![p].label = Null,
                                      ![p].after = "refreshed",
                                      ![p].refresh.st = "answered"]
              /\ clientCache' = IF proc[p].shared
                                THEN [clientCache EXCEPT ![proc[p].email] =
                                                            newCredentials(p)]
                                ELSE clientCache
         ELSE /\ proc' = [proc EXCEPT ![p].pc = "done",
                                      ![p].refresh.st = "failed",
                                      ![p].result = [kind |-> "refresh_error",
                                                     email |-> proc[p].email]]
              /\ UNCHANGED clientCache
    /\ UNCHANGED <<file, otherVars>>

\* the calendar request of freeBusy has been answered
RequestReturns(p) ==
    /\ proc[p].pc = "request"
    /\ proc' = [proc EXCEPT ![p].pc = "done"]
    /\ UNCHANGED <<file, clientCache, otherVars>>

\* the caller has the result
Return(p) ==
    /\ proc[p].pc = "done"
    /\ proc' = [proc EXCEPT ![p] = IdleProc]
    /\ UNCHANGED <<file, clientCache, otherVars>>

-----------------------------------------------------------------------------
(* google.ts: saveTokens, authenticateAccount, removeAccount,              *)
(* setDefaultAccount                                                       *)

\* loadTokenStore() of saveTokens(tokens, email, label) has completed: the
\* store is updated in memory and handed to saveTokenStore
SaveTokensLoaded(p) ==
    /\ proc[p].pc = "saveLoad"
    /\ LET store == loadTokenStore(file)
       IN  proc' = [proc EXCEPT
                      ![p].pc = "saveWrite",
                      ![p].loaded = store,
                      ![p].store = saveTokensUpdate(store, proc[p].tokens,
                                                    proc[p].email, proc[p].label)]
    /\ UNCHANGED <<file, clientCache, otherVars>>

\* saveTokenStore of saveTokens has completed, and the caller of saveTokens
\* goes on
SaveTokensWritten(p) ==
    /\ proc[p].pc = "saveWrite"
    /\ file' = saveTokenStore(proc[p].store)
    /\ LET r == [proc[p] EXCEPT !.writes = @ + 1]
           authenticated == [r EXCEPT !.pc = "done",
                                      !.result = [kind |-> "auth",
                                                  email |-> r.email]]
       IN  CASE r.after = "migrated" ->
                  \E now \in Nows : Continue(p, r, now, file')
             [] r.after = "refreshed" ->
                  Finish(p, [r EXCEPT !.refresh.st = "succeeded"])
             [] r.after = "authenticated" /\ r.op # "authenticateAccount" ->
                  Finish(p, r)
             [] OTHER ->
                  /\ proc' = [proc EXCEPT ![p] = authenticated]
                  /\ UNCHANGED clientCache
    /\ UNCHANGED otherVars

\* authenticateAccount(emailHint, label) is called
AuthenticateCall(p) ==
    /\ proc[p].op = "idle"
    /\ started < MaxCalls
    /\ started' = started + 1
    /\ \E emailHint \in Emails \cup {Null}, label \in Labels :
         proc' = [proc EXCEPT ![p] =
                    [IdleProc EXCEPT !.op = "authenticateAccount",
                                     !.pc = IF emailHint # Null
                                            THEN "loadExisting"
                                            ELSE "interactive",
                                     !.email = emailHint,
                                     !.label = label]]
    /\ UNCHANGED <<file, clientCache, staticVars>>

\* loadTokens(emailHint) of authenticateAccount has completed
AuthenticateLoaded(p) ==
    /\ proc[p].pc = "loadExisting"
    /\ LET existingTokens == loadTokens(loadTokenStore(file), proc[p].email)
       IN  proc' = [proc EXCEPT ![p] =
                IF existingTokens = NoTokens
                THEN [proc[p] EXCEPT !.pc = "interactive"]
                ELSE IF proc[p].label # Null
                THEN [proc[p] EXCEPT !.pc = "saveLoad",
                                     !.tokens = existingTokens,
                                     !.after = "relabelled"]
                ELSE [proc[p] EXCEPT !.pc = "done",
                                     !.result = [kind |-> "auth",
                                                 email |-> proc[p].email]]]
    /\ UNCHANGED <<file, clientCache, otherVars>>

\* removeAccount(email) is called
RemoveAccountCall(p) ==
    /\ proc[p].op = "idle"
    /\ started < MaxCalls
    /\ started' = started + 1
    /\ \E email \in Emails :
         proc' = [proc EXCEPT ![p] =
                    [IdleProc EXCEPT !.op = "removeAccount",
                                     !.pc = "loadStore",
                                     !.email = email]]
    /\ UNCHANGED <<file, clientCache, staticVars>>

\* loadTokenStore() of removeAccount has completed
RemoveAccountLoaded(p) ==
    /\ proc[p].pc = "loadStore"
    /\ proc[p].op = "removeAccount"
    /\ LET store == loadTokenStore(file)
           email == proc[p].email
       IN  IF ~Has(store.accounts, email)
           THEN /\ proc' = [proc EXCEPT ![p].pc = "done",
                                        ![p].loaded = store,
                                        ![p].result = [kind |-> "false",
                                                       email |-> email]]
                /\ UNCHANGED clientCache
           ELSE /\ clientCache' = CacheDelete(clientCache, email)
                /\ proc' = [Unshare(proc, p, email) EXCEPT
                              ![p].pc = "write",
                              ![p].loaded = store,
                              ![p].store = removeAccountUpdate(store, email)]
    /\ UNCHANGED <<file, otherVars>>

\* setDefaultAccount(email) is called
SetDefaultAccountCall(p) ==
    /\ proc[p].op = "idle"
    /\ started < MaxCalls
    /\ started' = started + 1
    /\ \E email \in Emails :
         proc' = [proc EXCEPT ![p] =
                    [IdleProc EXCEPT !.op = "setDefaultAccount",
                                     !.pc = "loadStore",
                                     !.email = email]]
    /\ UNCHANGED <<file, clientCache, staticVars>>

\* mutant of SetDefaultAccountLoaded: the email is not looked up
SetDefaultAccountLoadedUnchecked(p) ==
    /\ proc[p].pc = "loadStore"
    /\ proc[p].op = "setDefaultAccount"
    /\ LET store == loadTokenStore(file)
           email == proc[p].email
       IN  proc' = [proc EXCEPT ![p] =
                [proc[p] EXCEPT !.pc = "write",
                                !.loaded = store,
                                !.store = setDefaultAccountUpdate(store, email)]]
    /\ UNCHANGED <<file, clientCache, otherVars>>

\* loadTokenStore() of setDefaultAccount has completed
SetDefaultAccountLoaded(p) ==
    /\ proc[p].pc = "loadStore"
    /\ proc[p].op = "setDefaultAccount"
    /\ LET store == loadTokenStore(file)
           email == proc[p].email
       IN  proc' = [proc EXCEPT ![p] =
                IF ~Has(store.accounts, email)
                THEN [proc[p] EXCEPT !.pc = "done",
                                     !.loaded = store,
                                     !.result = [kind |-> "false",
                                                 email |-> email]]
                ELSE [proc[p] EXCEPT !.pc = "write",
                                     !.loaded = store,
                                     !.store = setDefaultAccountUpdate(store, email)]]
    /\ UNCHANGED <<file, clientCache, otherVars>>

\* mutant of StoreWritten: the update is applied to the document as it is
\* when the write is made
StoreWrittenAtomically(p) ==
    /\ proc[p].pc = "write"
    /\ file' = saveTokenStore(
                 IF proc[p].op = "removeAccount"
                 THEN removeAccountUpdate(loadTokenStore(file), proc[p].email)
                 ELSE setDefaultAccountUpdate(loadTokenStore(file), proc[p].email))
    /\ proc' = [proc EXCEPT ![p].pc = "done",
                            ![p].writes = @ + 1,
                            ![p].result = [kind |-> "true",
                                           email |-> proc[p].email]]
    /\ UNCHANGED <<clientCache, otherVars>>

\* saveTokenStore of removeAccount or setDefaultAccount has completed
StoreWritten(p) ==
    /\ proc[p].pc = "write"
    /\ file' = saveTokenStore(proc[p].store)
    /\ proc' = [proc EXCEPT ![p].pc = "done",
                            ![p].writes = @ + 1,
                            ![p].result = [kind |-> "true",
                                           email |-> proc[p].email]]
    /\ UNCHANGED <<clientCache, otherVars>>

\* one step of the account operation of caller p
StoreStep(p) ==
    \/ GetGoogleCall(p) \/ GetGoogleLoaded(p) \/ GetGoogleTokensLoaded(p)
    \/ IdentityReturns(p) \/ InteractiveReturns(p) \/ RefreshReturns(p)
    \/ RequestReturns(p)
    \/ SaveTokensLoaded(p) \/ SaveTokensWritten(p)
    \/ AuthenticateCall(p) \/ AuthenticateLoaded(p)
    \/ RemoveAccountCall(p) \/ RemoveAccountLoaded(p)
    \/ SetDefaultAccountCall(p) \/ SetDefaultAccountLoaded(p)
    \/ StoreWritten(p)

-----------------------------------------------------------------------------
(* resolveAccount as a process                                             *)

HintWork == <<"w", "o", "r", "k">>
HintZed  == <<"z", "e", "d">>
Hints    == {Null, EmailBo, HintWork, HintZed}

AtX      == <<"p", "@", "x", ".", "i", "o">>
AtY      == <<"q", "@", "Y", ".", "I", "O">>
AtZ      == <<"r", "@", "z", ".", "i", "o">>
AtNone   == <<"n", "o", "b", "o", "d", "y">>
AttendeeLists == {<<>>, <<AtX>>, <<AtY>>, <<AtY, AtY, AtX>>, <<AtX, AtY, AtY>>,
                  <<AtZ>>, <<AtNone>>}

\* the attendee lists tried together with a hint
HintedLists == {<<>>, <<AtY, AtY, AtX>>}

SelIdle == [pc |-> "idle", hint |-> Null, attendeeEmails |-> <<>>,
            store |-> EmptyStore, hintStore |-> EmptyStore, result |-> Null]

\* resolveAccount(hint, attendeeEmails) is called
ResolveAccountCall ==
    /\ sel.pc = "idle"
    /\ \E hint \in Hints, attendeeEmails \in AttendeeLists :
         /\ hint # Null => attendeeEmails \in HintedLists
         /\ sel' = [SelIdle EXCEPT !.pc = "loadStore", !.hint = hint,
                                !.attendeeEmails = attendeeEmails]
    /\ UNCHANGED <<file, clientCache, proc, started, availVars, resolveVars, retryVars, toolVars, createVars>>

\* loadTokenStore() of resolveAccount has completed: with a hint and an
\* account, resolveAccountHint is awaited, which loads the store again
ResolveAccountLoaded ==
    /\ sel.pc = "loadStore"
    /\ LET store == loadTokenStore(file)
           accounts == SelectSeq(store.accounts, LAMBDA a : a.email # Legacy)
       IN  sel' = IF Len(accounts) > 0 /\ sel.hint # Null
                  THEN [sel EXCEPT !.pc = "loadHint", !.store = store]
                  ELSE [sel EXCEPT !.pc = "done", !.store = store,
                                   !.hintStore = store,
                                   !.result = resolveAccount(store, store, sel.hint,
                                                             sel.attendeeEmails)]
    /\ UNCHANGED <<file, clientCache, proc, started, availVars, resolveVars, retryVars, toolVars, createVars>>

\* loadTokenStore() of resolveAccountHint has completed
ResolveAccountHintLoaded ==
    /\ sel.pc = "loadHint"
    /\ LET hintStore == loadTokenStore(file)
       IN  sel' = [sel EXCEPT !.pc = "done", !.hintStore = hintStore,
                              !.result = resolveAccount(sel.store, hintStore,
                                                        sel.hint,
                                                        sel.attendeeEmails)]
    /\ UNCHANGED <<file, clientCache, proc, started, availVars, resolveVars, retryVars, toolVars, createVars>>

\* the caller has the result
ResolveAccountReturn ==
    /\ sel.pc = "done"
    /\ sel' = SelIdle
    /\ UNCHANGED <<file, clientCache, proc, started, availVars, resolveVars, retryVars, toolVars, createVars>>

-----------------------------------------------------------------------------
(* google.ts: isRetryableError                                             *)

\* String.prototype.includes
includes(str, sub) ==
    \E i \in 0..(Len(str) - Len(sub)) : SubSeq(str, i + 1, i + Len(sub)) = sub

Quota == <<"q", "u", "o", "t", "a">>
RateLimit == <<"r", "a", "t", "e", " ", "l", "i", "m", "i", "t">>

\* error.code, error.response.status, the reasons of
\* error.response.data.error.errors and error.message; "" and 0 stand for a
\* field that is absent
retryableCodes == {"ECONNRESET", "ETIMEDOUT", "ENOTFOUND"}
retryableStatusCodes == {429, 500, 502, 503, 504}
retryableReasons == {"rateLimitExceeded", "quotaExceeded", "userRateLimitExceeded",
                     "backendError", "internalError"}

\* mutant of isRetryableError: the message is searched whatever the case
isRetryableErrorAnyCase(error) ==
    \/ error.code \in retryableCodes
    \/ error.status # 0 /\ error.status \in retryableStatusCodes
    \/ \E k \in 1..Len(error.reasons) : error.reasons[k] \in retryableReasons
    \/ includes(toLowerCase(error.message), Quota)
    \/ includes(toLowerCase(error.message), RateLimit)

isRetryableError(error) ==
    IF error.code = "ECONNRESET" \/ error.code = "ETIMEDOUT" \/ error.code = "ENOTFOUND"
    THEN TRUE
    ELSE IF error.status # 0 /\ error.status \in retryableStatusCodes
    THEN TRUE
    ELSE IF \E k \in 1..Len(error.reasons) : error.reasons[k] \in retryableReasons
    THEN TRUE
    ELSE IF includes(error.message, Quota) \/ includes(error.message, RateLimit)
    THEN TRUE
    ELSE FALSE

\* the errors an operation is made to throw
Plain == [code |-> "", status |-> 0, reasons |-> <<>>, message |-> <<>>]
MsgQuota == <<"n", "o", " ", "q", "u", "o", "t", "a", " ", "l", "e", "f", "t">>
MsgRate == <<"r", "a", "t", "e", " ", "l", "i", "m", "i", "t", "e", "d">>
MsgRateUpper == <<"R", "a", "t", "e", " ", "L", "i", "m", "i", "t">>
MsgRatelimit == <<"r", "a", "t", "e", "l", "i", "m", "i", "t">>
MsgDenied == <<"d", "e", "n", "i", "e", "d">>

ErrorShapes ==
    {[Plain EXCEPT !.code = c] :
        c \in {"ECONNRESET", "ETIMEDOUT", "ENOTFOUND", "ECONNREFUSED"}}
    \cup {[Plain EXCEPT !.status = s, !.message = MsgDenied] :
            s \in {400, 401, 403, 404, 429, 500, 501, 502, 503, 504}}
    \cup {[Plain EXCEPT !.status = 403, !.reasons = <<r>>] :
            r \in retryableReasons \cup {"forbidden"}}
    \cup {[Plain EXCEPT !.status = 403, !.reasons = <<"forbidden", "backendError">>]}
    \cup {[Plain EXCEPT !.message = m] :
            m \in {MsgQuota, MsgRate, MsgRateUpper, MsgRatelimit, MsgDenied}}
    \cup {[Plain EXCEPT !.status = 403, !.message = MsgQuota]}

-----------------------------------------------------------------------------
(* google.ts: retryWithBackoff                                             *)

\* maxRetries when the caller gives none, as every caller in google.ts does
DefaultMaxRetries == 4
MaxRetriesInputs == {0, 1, DefaultMaxRetries}

\* a thrown value: id tells one thrown object from another of the same shape
NoThrown == [id |-> 0, error |-> Plain]

RetryIdle ==
    [pc |-> "idle", maxRetries |-> DefaultMaxRetries, attempt |-> 0,
     invocations |-> 0,     \* times operation() has been called
     raised |-> NoThrown,    \* what the last operation() rejected with
     lastError |-> NoThrown,
     previous |-> NoThrown, \* what the operation() before that rejected with
     delays |-> <<>>,       \* delayMs of each setTimeout so far
     result |-> [kind |-> "none", error |-> NoThrown]]

\* retryWithBackoff(operation, operationName, maxRetries) is called and
\* invokes operation() for attempt 0
RetryCall ==
    /\ retry.pc = "idle"
    /\ \E maxRetries \in MaxRetriesInputs :
         retry' = [RetryIdle EXCEPT !.pc = "operation",
                                    !.maxRetries = maxRetries,
                                    !.invocations = 1]
    /\ UNCHANGED <<availVars, resolveVars, storeVars, toolVars, createVars>>

\* operation() has fulfilled: its value is returned
OperationReturns ==
    /\ retry.pc = "operation"
    /\ retry' = [retry EXCEPT !.pc = "done",
                              !.result = [kind |-> "value", error |-> NoThrown]]
    /\ UNCHANGED <<availVars, resolveVars, storeVars, toolVars, createVars>>

\* mutant of delayMs: the first delay is two seconds
delayMsFromTwo(attempt) == 2^(attempt + 1) * 1000

\* Math.pow(2, attempt) * 1000
delayMs(attempt) == 2^attempt * 1000

\* mutant of mayRetry: every error is retried
mayRetryAnyError(error, attempt, maxRetries) == attempt # maxRetries

\* mutant of mayRetry: one attempt more is made
mayRetryOnceMore(error, attempt, maxRetries) ==
    ~(~isRetryableError(error) \/ attempt = maxRetries + 1)

\* the catch block goes on to the delay: the error is retryable and the
\* attempt is not the last
mayRetry(error, attempt, maxRetries) ==
    LET isRetryable == isRetryableError(error)
        isLastAttempt == attempt = maxRetries
    IN  ~(~isRetryable \/ isLastAttempt)

\* mutant of OperationFails: the error is wrapped in a new one before it is
\* thrown
OperationFailsWrapping ==
    /\ retry.pc = "operation"
    /\ \E shape \in ErrorShapes :
         LET error == [id |-> retry.invocations, error |-> shape]
             r == [retry EXCEPT !.raised = error,
                                !.lastError = error,
                                !.previous = retry.raised]
         IN  IF mayRetry(shape, retry.attempt, retry.maxRetries)
             THEN retry' = [r EXCEPT !.pc = "delay",
                                     !.delays = Append(@, delayMs(retry.attempt))]
             ELSE retry' = [r EXCEPT !.pc = "done",
                                     !.result = [kind |-> "error",
                                                 error |-> [error EXCEPT !.id = 0]]]
    /\ UNCHANGED <<availVars, resolveVars, storeVars, toolVars, createVars>>

\* operation() has rejected: the error is thrown on, or the delay is started
OperationFails ==
    /\ retry.pc = "operation"
    /\ \E shape \in ErrorShapes :
         LET error == [id |-> retry.invocations, error |-> shape]
             r == [retry EXCEPT !.raised = error,
                                !.lastError = error,
                                !.previous = retry.raised]
         IN  IF mayRetry(shape, retry.attempt, retry.maxRetries)
             THEN retry' = [r EXCEPT !.pc = "delay",
                                     !.delays = Append(@, delayMs(retry.attempt))]
             ELSE retry' = [r EXCEPT !.pc = "done",
                                     !.result = [kind |-> "error", error |-> error]]
    /\ UNCHANGED <<availVars, resolveVars, storeVars, toolVars, createVars>>

\* the timer has fired: attempt++, and operation() is invoked again while
\* attempt <= maxRetries
DelayElapsed ==
    /\ retry.pc = "delay"
    /\ retry' = IF retry.attempt + 1 <= retry.maxRetries
                THEN [retry EXCEPT !.pc = "operation",
                                   !.attempt = @ + 1,
                                   !.invocations = @ + 1]
                ELSE [retry EXCEPT !.pc = "done",
                                   !.attempt = @ + 1,
                                   !.result = [kind |-> "error",
                                               error |-> retry.lastError]]
    /\ UNCHANGED <<availVars, resolveVars, storeVars, toolVars, createVars>>

\* the caller has the outcome
RetryReturn ==
    /\ retry.pc = "done"
    /\ retry' = RetryIdle
    /\ UNCHANGED <<availVars, resolveVars, storeVars, toolVars, createVars>>

-----------------------------------------------------------------------------
(* index.ts: the MCP tool handlers, one await at a time; date-utils.ts:    *)
(* parseDateWindow                                                         *)

\* A timestamp argument is absent (undefined), a text the ISO 8601 pattern
\* rejects, or a well-formed timestamp: the day and the millisecond
\* of the day, because a window of 90 days does not fit 32 bits in
\* milliseconds.
DayMs == 24 * 60 * MsPerMinute
Absent == [kind |-> "absent", day |-> 0, ms |-> 0]
Text == [kind |-> "text", day |-> 0, ms |-> 0]
Iso(day, ms) == [kind |-> "iso", day |-> day, ms |-> ms]

\* validateISODate passes
validateISODate(dateString) == dateString.kind = "iso"

\* validateDateRange passes: start.getTime() < end.getTime()
validateDateRangeAt(startISO, endISO) ==
    \/ startISO.day < endISO.day
    \/ startISO.day = endISO.day /\ startISO.ms < endISO.ms

\* validateTimeWindow passes: diffDays <= maxDays
validateTimeWindowAt(startISO, endISO, maxDays) ==
    LET days == endISO.day - startISO.day
        ms == endISO.ms - startISO.ms
    IN  ~(\/ days > maxDays    \* ms > -DayMs: more than maxDays whole days
          \/ days = maxDays /\ ms > 0)

\* the `window` argument: absent, or a phrase
NoPhrase == <<>>
Tomorrow == <<"T", "o", "m", "o", "r", "r", "o", "w">>
NextWeek == <<"n", "e", "x", "t", " ", "w", "e", "e", "k">>
Someday == <<"s", "o", "m", "e", "d", "a", "y">>

\* parseDateWindow, with now in day 0, a Monday; ok is FALSE when it throws
\* "Unsupported date window"
parseDateWindow(phrase) ==
    LET w == toLowerCase(phrase)
    IN  IF w = <<"t", "o", "d", "a", "y">>
        THEN [ok |-> TRUE, startISO |-> Iso(0, 0), endISO |-> Iso(0, DayMs - 1)]
        ELSE IF w = <<"t", "o", "m", "o", "r", "r", "o", "w">>
        THEN [ok |-> TRUE, startISO |-> Iso(1, 0), endISO |-> Iso(1, DayMs - 1)]
        ELSE IF w = <<"t", "h", "i", "s", " ", "w", "e", "e", "k">>
        THEN [ok |-> TRUE, startISO |-> Iso(0, 0), endISO |-> Iso(6, DayMs - 1)]
        ELSE IF w = NextWeek
        THEN [ok |-> TRUE, startISO |-> Iso(7, 0), endISO |-> Iso(13, DayMs - 1)]
        ELSE [ok |-> FALSE, startISO |-> Absent, endISO |-> Absent]

\* an optional title that is not supplied, and titles
Undefined == "undefined"
TitleStandup == "Standup"
TitleRetro == "Retro"

\* the arguments of a tool call that the handler reads; attendees tells
\* whether update_meeting was given the optional attendees
NoArgs == [window |-> NoPhrase, startISO |-> Absent, endISO |-> Absent,
           durationMinutes |-> 30, attendees |-> TRUE, title |-> Undefined]

\* find_slots and plan_and_schedule: exactly one of `window` and the two
\* timestamps, then the four checks on the resulting start and end
windowValid(args) ==
    LET given == args.window # NoPhrase
        parsed == parseDateWindow(args.window)
        start == IF given THEN parsed.startISO ELSE args.startISO
        end == IF given THEN parsed.endISO ELSE args.endISO
    IN  /\ ~(given /\ (args.startISO # Absent \/ args.endISO # Absent))
        /\ ~(~given /\ (args.startISO = Absent \/ args.endISO = Absent))
        /\ given => parsed.ok
        /\ validateISODate(start)
        /\ validateISODate(end)
        /\ validateDateRangeAt(start, end)
        /\ validateTimeWindowAt(start, end, 90)

\* mutant of validates: plan_and_schedule takes any duration
validatesAnyDuration(name, args) ==
    CASE name = "find_slots" -> windowValid(args)
      [] name = "plan_and_schedule" -> windowValid(args)
      [] name = "create_meet_and_calendar" ->
            /\ validateISODate(args.startISO)
            /\ validateISODate(args.endISO)
            /\ validateDateRangeAt(args.startISO, args.endISO)
      [] name = "list_meetings" ->
            /\ validateISODate(args.startISO)
            /\ validateISODate(args.endISO)
            /\ validateDateRangeAt(args.startISO, args.endISO)
            /\ validateTimeWindowAt(args.startISO, args.endISO, 365)
      [] name = "update_meeting" ->
            /\ args.startISO # Absent => validateISODate(args.startISO)
            /\ args.endISO # Absent => validateISODate(args.endISO)
            /\ (args.startISO # Absent /\ args.endISO # Absent)
               => validateDateRangeAt(args.startISO, args.endISO)
      [] OTHER -> TRUE

\* the checks a handler makes before its first await; the handler throws
\* when one of them fails
validates(name, args) ==
    CASE name = "find_slots" -> windowValid(args)
      [] name = "plan_and_schedule" ->
            windowValid(args) /\ validateDuration(args.durationMinutes)
      [] name = "create_meet_and_calendar" ->
            /\ validateISODate(args.startISO)
            /\ validateISODate(args.endISO)
            /\ validateDateRangeAt(args.startISO, args.endISO)
      [] name = "list_meetings" ->
            /\ validateISODate(args.startISO)
            /\ validateISODate(args.endISO)
            /\ validateDateRangeAt(args.startISO, args.endISO)
            /\ validateTimeWindowAt(args.startISO, args.endISO, 365)
      [] name = "update_meeting" ->
            /\ args.startISO # Absent => validateISODate(args.startISO)
            /\ args.endISO # Absent => validateISODate(args.endISO)
            /\ (args.startISO # Absent /\ args.endISO # Absent)
               => validateDateRangeAt(args.startISO, args.endISO)
      [] OTHER -> TRUE

\* the inputs of the tool calls
IsoArgs == {Absent, Text, Iso(0, 0), Iso(0, 10 * MsPerMinute), Iso(90, 0),
            Iso(90, 10 * MsPerMinute), Iso(365, 0), Iso(365, 10 * MsPerMinute)}
Phrases == {NoPhrase, Tomorrow, NextWeek, Someday}
DurationArgs == {0, 1, 1440, 1441}

ArgsOf(name) ==
    CASE name \in {"find_slots", "plan_and_schedule"} ->
            {[NoArgs EXCEPT !.window = w, !.startISO = s, !.endISO = e,
                            !.durationMinutes = d] :
                w \in Phrases, s \in IsoArgs, e \in IsoArgs,
                d \in IF name = "find_slots" THEN {30} ELSE DurationArgs}
      [] name \in {"create_meet_and_calendar", "list_meetings"} ->
            {[NoArgs EXCEPT !.startISO = s, !.endISO = e] :
                s \in IsoArgs, e \in IsoArgs}
      [] name = "update_meeting" ->
            {[NoArgs EXCEPT !.startISO = s, !.endISO = e, !.attendees = a,
                            !.title = t] :
                s \in IsoArgs, e \in IsoArgs, a \in BOOLEAN,
                t \in {Undefined, TitleRetro}}
      [] OTHER -> {NoArgs}

Tools == {"find_slots", "create_meet_and_calendar", "plan_and_schedule",
          "list_meetings", "update_meeting", "delete_meeting"}

\* the ways resolveAttendeesToEmails rejects
ResolutionErrors == {"empty_input", "invalid_email", "not_found", "ambiguous",
                     "no_attendees"}

NoToolReply == [kind |-> "none", error |-> "none", warning |-> FALSE]

\* the event of the primary calendar that eventId names, before the call:
\* with or without a summary, at one of two times
NoEvent == [summary |-> "none", start |-> Absent, end |-> Absent]
PrimaryEvents ==
    {[summary |-> t, start |-> Iso(d, 0), end |-> Iso(d, 10 * MsPerMinute)] :
        t \in {TitleStandup, ""}, d \in {0, 90}}

\* what getMeetingDetails returns of it: title is event.summary || '(No title)'
NoDetails == [title |-> "none", startISO |-> Absent, endISO |-> Absent]
getMeetingDetails(event) ==
    [title |-> IF event.summary = "" THEN "(No title)" ELSE event.summary,
     startISO |-> event.start,
     endISO |-> event.end]

\* apple.ts appleDateString: the date and the time of day to the second; the
\* value is the instant AppleScript's date "..." reads from it
appleDateString(iso) == [iso EXCEPT !.ms = @ - (@ % 1000)]

\* addMinutes on a timestamp of a day and a millisecond of the day
addMinutesAt(iso, m) ==
    [iso EXCEPT !.day = @ + (iso.ms + m * MsPerMinute) \div DayMs,
                !.ms = (@ + m * MsPerMinute) % DayMs]

NoLookup == [title |-> "none", start |-> Absent]
NoRequest == [start |-> Absent, end |-> Absent]

ToolIdle ==
    [name |-> "idle", pc |-> "idle", args |-> NoArgs,
     calls |-> <<>>,        \* the collaborator calls made, in order
     resolution |-> "none", \* outcome of resolveAttendeesToEmails
     found |-> "none",      \* whether pickContiguous found a span
     pick |-> NoRequest,    \* the span it found
     event |-> NoEvent,     \* the primary calendar's event before the call
     details |-> NoDetails, \* what getMeetingDetails returned
     request |-> NoRequest, \* start and end sent to the primary calendar
     lookup |-> NoLookup,   \* title and start the mirror action searches
     primary |-> "none",    \* outcome of create/update/deleteMeetEvent
     mirror |-> "none",     \* outcome of the Apple Calendar action
     reply |-> NoToolReply]

\* startISO and endISO of the arguments of createMeetEvent or updateMeetEvent
requestOf(t) ==
    CASE t.name = "plan_and_schedule" -> t.pick
      [] t.name \in {"create_meet_and_calendar", "update_meeting"} ->
            [start |-> t.args.startISO, end |-> t.args.endISO]
      [] OTHER -> NoRequest

\* the title and the start date the AppleScript of updateAppleCalendarEvent
\* or deleteAppleCalendarEvent compares the events of the calendar with
lookupOf(t) ==
    IF t.name \in {"update_meeting", "delete_meeting"}
    THEN [title |-> t.details.title,
          start |-> appleDateString(t.details.startISO)]
    ELSE NoLookup

\* the call on the Google calendar and the call on the Apple calendar that a
\* tool makes
primaryCall(name) ==
    CASE name = "update_meeting" -> "updateMeetEvent"
      [] name = "delete_meeting" -> "deleteMeetEvent"
      [] OTHER -> "createMeetEvent"

mirrorCall(name) ==
    CASE name = "update_meeting" -> "updateAppleCalendarEvent"
      [] name = "delete_meeting" -> "deleteAppleCalendarEvent"
      [] OTHER -> "addToAppleCalendar"

\* the handler calls a collaborator and awaits it
Await(t, pc, call) ==
    [t EXCEPT !.pc = pc, !.calls = Append(@, call),
              !.request = IF pc = "primary" THEN requestOf(t) ELSE @,
              !.lookup = IF pc = "mirror" THEN lookupOf(t) ELSE @]

\* the handler throws: the tool call fails
Throw(t, error) ==
    [t EXCEPT !.pc = "done",
              !.reply = [kind |-> "error", error |-> error, warning |-> FALSE]]

\* the handler returns its content
Reply(t, kind, warning) ==
    [t EXCEPT !.pc = "done",
              !.reply = [kind |-> kind, error |-> "none", warning |-> warning]]

\* a tool is called: the handler validates its arguments and makes its first
\* collaborator call
ToolCall ==
    /\ tool.pc = "idle"
    /\ \E name \in Tools :
         \E args \in ArgsOf(name) :
           LET t == [ToolIdle EXCEPT !.name = name, !.args = args]
           IN  tool' =
                 IF ~validates(name, args)
                 THEN Throw(t, "validation")
                 ELSE IF name \in {"update_meeting", "delete_meeting"}
                 THEN Await(t, "details", "getMeetingDetails")
                 ELSE IF name = "list_meetings"
                 THEN Await(t, "list", "listMeetings")
                 ELSE Await(t, "resolve", "resolveAttendeesToEmails")
    /\ UNCHANGED <<availVars, resolveVars, storeVars, retryVars, createVars>>

\* getMeetingDetails has settled
DetailsReturns ==
    /\ tool.pc = "details"
    /\ \E ok \in BOOLEAN, event \in PrimaryEvents :
         LET t == [tool EXCEPT !.event = event,
                               !.details = getMeetingDetails(event)]
         IN  tool' =
               IF ~ok
               THEN Throw(tool, "details")
               ELSE IF tool.name = "delete_meeting"
               THEN Await(t, "mirror", mirrorCall(tool.name))
               ELSE IF tool.args.attendees
               THEN Await(t, "resolve", "resolveAttendeesToEmails")
               ELSE Await(t, "primary", primaryCall(tool.name))
    /\ UNCHANGED <<availVars, resolveVars, storeVars, retryVars, createVars>>

\* mutant of ResolveReturns: a failed resolution is passed over and the
\* handler goes on
ResolveReturnsGuessing ==
    /\ tool.pc = "resolve"
    /\ \E r \in {"ok"} \cup ResolutionErrors :
         LET t == [tool EXCEPT !.resolution = r]
         IN  tool' =
               IF tool.name \in {"find_slots", "plan_and_schedule"}
               THEN Await(t, "freeBusy", "freeBusy")
               ELSE Await(t, "primary", primaryCall(tool.name))
    /\ UNCHANGED <<availVars, resolveVars, storeVars, retryVars, createVars>>

\* resolveAttendeesToEmails has settled
ResolveReturns ==
    /\ tool.pc = "resolve"
    /\ \E r \in {"ok"} \cup ResolutionErrors :
         LET t == [tool EXCEPT !.resolution = r]
         IN  tool' =
               IF r # "ok"
               THEN Throw(t, r)
               ELSE IF tool.name \in {"find_slots", "plan_and_schedule"}
               THEN Await(t, "freeBusy", "freeBusy")
               ELSE Await(t, "primary", primaryCall(tool.name))
    /\ UNCHANGED <<availVars, resolveVars, storeVars, retryVars, createVars>>

\* the span pickContiguous returns when the first run of the grid is long
\* enough: from the start of the search window, durationMinutes long
firstSpan(args) ==
    LET start == IF args.window # NoPhrase
                 THEN parseDateWindow(args.window).startISO
                 ELSE args.startISO
    IN  [start |-> start, end |-> addMinutesAt(start, args.durationMinutes)]

\* mutant of FreeBusyReturns: without a span the event is created at the
\* start of the window
FreeBusyReturnsBookingAnyway ==
    /\ tool.pc = "freeBusy"
    /\ \E ok \in BOOLEAN, found \in BOOLEAN :
         LET t == [tool EXCEPT !.found = IF found THEN "yes" ELSE "no",
                               !.pick = firstSpan(tool.args)]
         IN  tool' =
               IF ~ok
               THEN Throw(tool, "freeBusy")
               ELSE IF tool.name = "find_slots"
               THEN Reply(tool, "slots", FALSE)
               ELSE Await(t, "primary", primaryCall(tool.name))
    /\ UNCHANGED <<availVars, resolveVars, storeVars, retryVars, createVars>>

\* freeBusy has settled; found tells whether pickContiguous finds a span in
\* the grid of its response
FreeBusyReturns ==
    /\ tool.pc = "freeBusy"
    /\ \E ok \in BOOLEAN, found \in BOOLEAN :
         LET t == [tool EXCEPT !.found = IF found THEN "yes" ELSE "no",
                               !.pick = IF found THEN firstSpan(tool.args)
                                        ELSE NoRequest]
         IN  tool' =
               IF ~ok
               THEN Throw(tool, "freeBusy")
               ELSE IF tool.name = "find_slots"
               THEN Reply(tool, "slots", FALSE)
               ELSE IF ~found
               THEN Reply(t, "no_slot", FALSE)
               ELSE Await(t, "primary", primaryCall(tool.name))
    /\ UNCHANGED <<availVars, resolveVars, storeVars, retryVars, createVars>>

\* listMeetings has settled
ListReturns ==
    /\ tool.pc = "list"
    /\ \E ok \in BOOLEAN :
         tool' = IF ok THEN Reply(tool, "meetings", FALSE) ELSE Throw(tool, "list")
    /\ UNCHANGED <<availVars, resolveVars, storeVars, retryVars, createVars>>

\* createMeetEvent, updateMeetEvent or deleteMeetEvent has settled
PrimaryReturns ==
    /\ tool.pc = "primary"
    /\ \E ok \in BOOLEAN :
         tool' =
           IF ~ok
           THEN Throw([tool EXCEPT !.primary = "failed"], "primary")
           ELSE IF tool.name = "delete_meeting"
           THEN Reply([tool EXCEPT !.primary = "ok"], "done", tool.mirror # "ok")
           ELSE Await([tool EXCEPT !.primary = "ok"], "mirror", mirrorCall(tool.name))
    /\ UNCHANGED <<availVars, resolveVars, storeVars, retryVars, createVars>>

\* mutant of MirrorReturns: a failure of the Apple Calendar action is thrown
MirrorReturnsThrowing ==
    /\ tool.pc = "mirror"
    /\ \E ok \in BOOLEAN :
         LET t == [tool EXCEPT !.mirror = IF ok THEN "ok" ELSE "failed"]
         IN  tool' =
               IF ~ok
               THEN Throw(t, "mirror")
               ELSE IF tool.name = "delete_meeting"
               THEN Await(t, "primary", primaryCall(tool.name))
               ELSE Reply(t, "done", ~ok)
    /\ UNCHANGED <<availVars, resolveVars, storeVars, retryVars, createVars>>

\* addToAppleCalendar, updateAppleCalendarEvent or deleteAppleCalendarEvent
\* has settled: each catches the failure of osascript and returns it.
\* delete_meeting calls deleteAppleCalendarEvent before deleteMeetEvent.
MirrorReturns ==
    /\ tool.pc = "mirror"
    /\ \E ok \in BOOLEAN :
         LET t == [tool EXCEPT !.mirror = IF ok THEN "ok" ELSE "failed"]
         IN  tool' =
               IF tool.name = "delete_meeting"
               THEN Await(t, "primary", primaryCall(tool.name))
               ELSE Reply(t, "done", ~ok)
    /\ UNCHANGED <<availVars, resolveVars, storeVars, retryVars, createVars>>

\* the handler has answered; the server waits for the next tool call
ToolReturn ==
    /\ tool.pc = "done"
    /\ tool' = ToolIdle
    /\ UNCHANGED <<availVars, resolveVars, storeVars, retryVars, createVars>>

-----------------------------------------------------------------------------
(* google.ts: createMeetEvent.  calendar.events.insert is the operation    *)
(* retryWithBackoff invokes; the request body carries no event id, and the *)
(* requestId of its conferenceData.createRequest is `meet-${Date.now()}`,  *)
(* evaluated anew by every invocation.  The calendar applies every insert  *)
(* it receives as a new event.                                             *)

\* the response to a request the remote side applied can be lost or replaced
\* by a gateway error: a network error code or a 5xx status
ReportedAfterApplying(shape) ==
    \/ shape.code \in {"ECONNRESET", "ETIMEDOUT"}
    \/ shape.status \in {500, 502, 503, 504}

CreateIdle ==
    [pc |-> "idle", tool |-> "none", attempt |-> 0,
     invocations |-> 0,   \* calendar.events.insert requests sent
     events |-> 0,        \* events the primary calendar holds from this call
     lost |-> 0,          \* inserts applied whose answer was a failure
     raised |-> Plain,    \* what the last insert rejected with
     result |-> "none"]

\* create_meet_and_calendar or plan_and_schedule calls createMeetEvent:
\* getGoogle has returned and retryWithBackoff sends the first insert
CreateMeetEventCall ==
    /\ create.pc = "idle"
    /\ \E name \in {"create_meet_and_calendar", "plan_and_schedule"} :
         create' = [CreateIdle EXCEPT !.pc = "insert", !.tool = name,
                                      !.invocations = 1]
    /\ UNCHANGED <<availVars, resolveVars, storeVars, retryVars, toolVars>>

\* the insert is answered with the event
InsertReturns ==
    /\ create.pc = "insert"
    /\ create' = [create EXCEPT !.pc = "done", !.events = @ + 1,
                                !.result = "event"]
    /\ UNCHANGED <<availVars, resolveVars, storeVars, retryVars, toolVars>>

\* the insert is rejected, before or after the calendar applied it:
\* retryWithBackoff starts the delay or throws, and createMeetEvent wraps
\* what it throws
InsertFails ==
    /\ create.pc = "insert"
    /\ \E shape \in ErrorShapes, applied \in BOOLEAN :
         /\ applied => ReportedAfterApplying(shape)
         /\ LET r == [create EXCEPT !.raised = shape,
                                    !.events = IF applied THEN @ + 1 ELSE @,
                                    !.lost = IF applied THEN @ + 1 ELSE @]
            IN  create' =
                  IF mayRetry(shape, create.attempt, DefaultMaxRetries)
                  THEN [r EXCEPT !.pc = "delay"]
                  ELSE [r EXCEPT !.pc = "done", !.result = "error"]
    /\ UNCHANGED <<availVars, resolveVars, storeVars, retryVars, toolVars>>

\* the timer has fired: the insert is sent again
InsertDelayElapsed ==
    /\ create.pc = "delay"
    /\ create' = [create EXCEPT !.pc = "insert", !.attempt = @ + 1,
                                !.invocations = @ + 1]
    /\ UNCHANGED <<availVars, resolveVars, storeVars, retryVars, toolVars>>

\* the handler has the event or the error
CreateMeetEventReturn ==
    /\ create.pc = "done"
    /\ create' = CreateIdle
    /\ UNCHANGED <<availVars, resolveVars, storeVars, retryVars, toolVars>>

-----------------------------------------------------------------------------
(* Specifications                                                          *)

Init ==
    /\ AvailIdle /\ ResolveIdle /\ StoreIdle /\ sel = SelIdle
    /\ retry = RetryIdle /\ tool = ToolIdle /\ create = CreateIdle

NextAvail == FindSlots \/ PlanAndSchedule \/ AvailReturn
SpecAvail == Init /\ [][NextAvail]_vars

NextResolve == ResolveCall \/ LookupReturns \/ ResolveDone
SpecResolve == Init /\ [][NextResolve]_vars

\* two callers, each with one account operation, interleaved at their awaits
NextStore == \E p \in Procs : StoreStep(p)
SpecStore == Init /\ [][NextStore]_vars

\* the account operations of one caller, one at a time, and resolveAccount
\* between them
NextAccounts ==
    \/ sel.pc = "idle" /\ (StoreStep(1) \/ Return(1))
    \/ proc[1].op = "idle" /\ ResolveAccountCall
    \/ ResolveAccountLoaded
    \/ ResolveAccountHintLoaded
    \/ ResolveAccountReturn
SpecAccounts == Init /\ [][NextAccounts]_vars

\* the account operations of one caller on a store that starts empty, one at
\* a time, and resolveAccount between them; with no document at the start no
\* placeholder account is ever loaded
StepFromEmpty(p) ==
    \/ GetGoogleCall(p) \/ GetGoogleLoaded(p) \/ GetGoogleTokensLoaded(p)
    \/ InteractiveReturns(p) \/ RefreshReturns(p) \/ RequestReturns(p)
    \/ SaveTokensLoaded(p) \/ SaveTokensWritten(p)
    \/ AuthenticateCall(p) \/ AuthenticateLoaded(p)
    \/ RemoveAccountCall(p) \/ RemoveAccountLoaded(p)
    \/ SetDefaultAccountCall(p) \/ SetDefaultAccountLoaded(p)
    \/ StoreWritten(p)
NextFromEmpty ==
    \/ sel.pc = "idle" /\ (StepFromEmpty(1) \/ Return(1))
    \/ proc[1].op = "idle" /\ ResolveAccountCall
    \/ ResolveAccountLoaded
    \/ ResolveAccountHintLoaded
    \/ ResolveAccountReturn
InitFromEmpty == Init /\ file = NoFile
SpecFromEmpty == InitFromEmpty /\ [][NextFromEmpty]_vars

\* one retryWithBackoff call after another
NextRetry == RetryCall \/ OperationReturns \/ OperationFails \/ DelayElapsed
               \/ RetryReturn
SpecRetry == Init /\ [][NextRetry]_vars

\* one tool call after another
NextTools == ToolCall \/ DetailsReturns \/ ResolveReturns \/ FreeBusyReturns
               \/ ListReturns \/ PrimaryReturns \/ MirrorReturns \/ ToolReturn
SpecTools == Init /\ [][NextTools]_vars

\* one createMeetEvent call after another
NextCreate == CreateMeetEventCall \/ InsertReturns \/ InsertFails
                \/ InsertDelayElapsed \/ CreateMeetEventReturn
SpecCreate == Init /\ [][NextCreate]_vars

\* every operation() settles and every timer fires
SpecRetryLive ==
    SpecRetry /\ WF_vars(OperationReturns \/ OperationFails \/ DelayElapsed)


-----------------------------------------------------------------------------
(* Properties of the availability computation and the picker               *)

\* computeCommonFree ran in the handler that answered last
GridComputed ==
    /\ op \in {"find_slots", "plan_and_schedule"}
    /\ reply.kind \in {"slots", "no_slot", "scheduled", "create_error"}

AllBusy == UNION {busyMap[id] : id \in DOMAIN busyMap}

\* half-open overlap of [s, e) with the busy interval b
Overlaps(s, e, b) == s < b.end /\ b.start < e

\* C1: no slot returned by computeCommonFree, read back from its startISO and
\* endISO, overlaps a busy interval of any calendar of the busy map.
C1_ReturnedSlotsAvoidBusy ==
    GridComputed =>
        \A k \in 1..Len(grid) : \A b \in AllBusy :
            ~Overlaps(grid[k].startISO, grid[k].endISO, b)

\* the slots of grid from index i to index j are a maximal run of exactly
\* adjacent slots
IsRun(i, j) ==
    /\ 1 <= i /\ i <= j /\ j <= Len(grid)
    /\ \A k \in i..(j - 1) : grid[k + 1].startISO = grid[k].endISO
    /\ i = 1 \/ grid[i].startISO # grid[i - 1].endISO
    /\ j = Len(grid) \/ grid[j + 1].startISO # grid[j].endISO

RunLength(i, j) == grid[j].endISO - grid[i].startISO

Qualifies(i, j) == IsRun(i, j) /\ RunLength(i, j) >= duration * MsPerMinute

Picked ==
    /\ op = "plan_and_schedule"
    /\ reply.kind \in {"no_slot", "scheduled", "create_error"}

\* C2: a window returned by pickContiguous starts where the first maximal run
\* of adjacent slots of at least durationMinutes starts, and is exactly
\* durationMinutes long.
C2_PickIsFirstQualifyingRunClipped ==
    (Picked /\ pick.found) =>
        \E i \in 1..Len(grid) : \E j \in i..Len(grid) :
            /\ Qualifies(i, j)
            /\ \A i2 \in 1..(i - 1) : \A j2 \in i2..Len(grid) : ~Qualifies(i2, j2)
            /\ pick.startISO = grid[i].startISO
            /\ pick.endISO - pick.startISO = duration * MsPerMinute

\* a run too short for the meeting comes first, and the run picked is longer
\* than the meeting
C2_Witness ==
    /\ Picked /\ pick.found
    /\ pick.startISO > grid[1].startISO
    /\ \E i \in 1..Len(grid) : \E j \in i..Len(grid) :
          /\ Qualifies(i, j)
          /\ grid[i].startISO = pick.startISO
          /\ RunLength(i, j) > duration * MsPerMinute

\* C3: pickContiguous answers "not found" exactly when there is no slot or no
\* maximal run of adjacent slots is as long as durationMinutes; it never
\* merges across a gap.
C3_NotFoundIffNoQualifyingRun ==
    Picked =>
        (~pick.found <=>
            (Len(grid) = 0
             \/ ~\E i \in 1..Len(grid) : \E j \in i..Len(grid) : Qualifies(i, j)))

\* two runs separated by a gap would be long enough if merged across it
C3_Witness ==
    /\ Picked /\ ~pick.found
    /\ Len(grid) >= 2
    /\ \E k \in 1..(Len(grid) - 1) : grid[k + 1].startISO # grid[k].endISO
    /\ grid[Len(grid)].endISO - grid[1].startISO >= duration * MsPerMinute

\* [s, s + duration) lies in the search window and is free in every calendar
FreeWindow(s) ==
    LET e == s + duration * MsPerMinute
    IN  /\ window.start <= s
        /\ e <= window.end
        /\ \A b \in AllBusy : ~Overlaps(s, e, b)

\* the earliest free window, if any, starts at the window start or where a
\* busy interval ends
CandidateStarts == {window.start} \cup {b.end : b \in AllBusy}

\* C4: plan_and_schedule books the earliest window of durationMinutes in the
\* search window that is free for everyone, and books one whenever one exists.
C4_BooksEarliestFeasibleWindow ==
    (op = "plan_and_schedule" /\ reply.kind \in {"scheduled", "no_slot"}) =>
        /\ reply.kind = "scheduled" =>
              /\ FreeWindow(pick.startISO)
              /\ \A s \in CandidateStarts : FreeWindow(s) => pick.startISO <= s
        /\ (\E s \in CandidateStarts : FreeWindow(s)) => reply.kind = "scheduled"

\* ceil(a / b) for a >= 0, b > 0
CeilDiv(a, b) == (a + b - 1) \div b

\* C5: with an empty busy map computeCommonFree returns
\* ceil((end - start) / slotMinutes) slots, the k-th being
\* [start + k*slotMinutes, start + (k+1)*slotMinutes), disjoint and in order.
C5_EmptyBusyMapGrid ==
    (GridComputed /\ busyMap = NoBusy) =>
        LET step == slotMin * MsPerMinute
        IN  /\ Len(grid) = CeilDiv(window.end - window.start, step)
            /\ \A k \in 1..Len(grid) :
                  /\ grid[k].startISO = window.start + (k - 1) * step
                  /\ grid[k].endISO = window.start + k * step
            /\ \A k \in 1..(Len(grid) - 1) :
                  /\ grid[k].startISO < grid[k + 1].startISO
                  /\ grid[k].endISO <= grid[k + 1].startISO


-----------------------------------------------------------------------------
(* Properties of the attendee resolver                                     *)

\* the m-th smallest element of a finite set of integers
NthOf(S, m) == CHOOSE k \in S : Cardinality({j \in S : j < k}) = m - 1

\* the contact lookup of entry i was made and the People API answered it
LookupAnswered(i) ==
    task[i].st # "pending" /\ task[i].lookups = 1 /\ task[i].resp.ok

\* positions of the contacts with a non-empty email in the answer for entry i
WithEmail(i) ==
    {k \in 1..Len(task[i].resp.results) : task[i].resp.results[k].email # <<>>}

\* C6: for an input that is not an email, the outcome follows the number of
\* contacts with a non-empty email the lookup returned: one gives that
\* contact's lowercased email and name, none gives ContactNotFound, two or
\* more give AmbiguousContact with the first five at most as candidates.
C6_OutcomeByNumberOfMatches ==
    \A i \in DOMAIN task :
        LookupAnswered(i) =>
            LET res == task[i].resp.results
                idx == WithEmail(i)
                n == Cardinality(idx)
            IN  /\ n = 1 =>
                      /\ task[i].st = "fulfilled"
                      /\ task[i].value.email = toLowerCase(res[NthOf(idx, 1)].email)
                      /\ task[i].value.hasName
                      /\ task[i].value.displayName = res[NthOf(idx, 1)].name
                /\ n = 0 =>
                      /\ task[i].st = "rejected"
                      /\ task[i].error.kind = "ContactNotFound"
                /\ n >= 2 =>
                      /\ task[i].st = "rejected"
                      /\ task[i].error.kind = "AmbiguousContact"
                      /\ Len(task[i].error.candidates) = Min(5, n)
                      /\ \A m \in 1..Min(5, n) :
                            task[i].error.candidates[m] = res[NthOf(idx, m)]

\* more than five contacts matched and five are listed
C6_Witness ==
    \E i \in DOMAIN task :
        /\ LookupAnswered(i)
        /\ Cardinality(WithEmail(i)) > 5
        /\ task[i].error.kind = "AmbiguousContact"
        /\ Len(task[i].error.candidates) = 5

\* the entry, trimmed, matches emailPattern within the length bounds
IsDirectEmail(str) ==
    LET t == trim(str)
    IN  /\ emailPatternTest(t)
        /\ Len(t) <= 254
        /\ \A k \in 1..Len(t) : t[k] = "@" => k - 1 <= 64

CanonicalEmail(e) ==
    /\ e = toLowerCase(e)
    /\ emailPatternTest(e)
    /\ Len(e) <= 254
    /\ Len(localPartOf(e)) <= 64

\* C8: every attendee returned by resolveToEmail or resolveAttendeesToEmails
\* has a lowercased email that passed the syntactic validation.
C8_ResolvedEmailsAreValidated ==
    /\ \A i \in DOMAIN task :
          task[i].st = "fulfilled" => CanonicalEmail(task[i].value.email)
    /\ outcome.st = "fulfilled" =>
          \A k \in 1..Len(outcome.attendees) :
              CanonicalEmail(outcome.attendees[k].email)

\* C9: when the resolution of an entry fails, the call fails with an error that
\* names an entry whose resolution failed and wraps its error, and returns no
\* list.
C9_AllOrNothing ==
    (\E i \in DOMAIN task : task[i].st = "rejected") =>
        /\ outcome.st = "rejected"
        /\ outcome.attendees = <<>>
        /\ \E j \in DOMAIN task :
              /\ task[j].st = "rejected"
              /\ outcome.error.kind = "ResolveFailed"
              /\ outcome.error.input = entries[j]
              /\ outcome.error.cause = task[j].error

\* one entry resolved, the lookup of another found no contact
C9_Witness ==
    /\ outcome.st = "rejected"
    /\ \E i \in DOMAIN task : task[i].st = "fulfilled"
    /\ \E j \in DOMAIN task :
          /\ task[j].st = "rejected"
          /\ task[j].error.kind = "ContactNotFound"
          /\ outcome.error.input = entries[j]

\* entries whose resolved email occurs at no earlier entry
FirstOccurrences ==
    {i \in DOMAIN task :
        \A j \in 1..(i - 1) :
            toLowerCase(task[j].value.email) # toLowerCase(task[i].value.email)}

\* C10: on success the result holds one entry per distinct lowercased email, in
\* the order of the first occurrences in the input and with the display name
\* of the first occurrence, whatever the order in which the lookups completed.
C10_DedupedInInputOrder ==
    outcome.st = "fulfilled" =>
        /\ Len(outcome.attendees) = Cardinality(FirstOccurrences)
        /\ \A m \in 1..Len(outcome.attendees) :
              outcome.attendees[m] = task[NthOf(FirstOccurrences, m)].value

\* the second lookup completed first; a duplicate was removed in another run
C10_Witness ==
    /\ outcome.st = "fulfilled"
    /\ completed = <<2, 1>>
    /\ task[1].lookups = 1 /\ task[2].lookups = 1
    /\ Len(outcome.attendees) = 2

\* "Al" and " Al@X.io " give one entry, which keeps the display name of "Al"
C10_WitnessDuplicate ==
    /\ outcome.st = "fulfilled"
    /\ entries = <<InAl, InAlMail>>
    /\ outcome.attendees = <<[email |-> <<"a", "l", "@", "x", ".", "i", "o">>,
                             hasName |-> TRUE, displayName |-> <<"A", "l">>]>>
    /\ Len(warned) = 1

\* the emails of a result, as the entries of another call
EmailsOf(attendees) == [k \in 1..Len(attendees) |-> attendees[k].email]

\* resolveAttendeesToEmails(es), up to the point where only contact lookups
\* are outstanding
CallOn(es) == settleSync(startAll(es), es, 1)

\* C11: resolveAttendeesToEmails applied to the emails of a successful result
\* makes no contacts lookup and returns the same set of emails.
C11_IdempotentOnOwnOutput ==
    outcome.st = "fulfilled" =>
        LET es == EmailsOf(outcome.attendees)
            J == CallOn(es)
        IN  /\ \A i \in DOMAIN J.task : J.task[i].lookups = 0
            /\ J.outcome.st = "fulfilled"
            /\ {J.outcome.attendees[k].email : k \in 1..Len(J.outcome.attendees)}
                 = {es[k] : k \in 1..Len(es)}

\* the same, for the results in which every email passed the validation
C11_IdempotentOnValidatedOutput ==
    (outcome.st = "fulfilled"
       /\ \A k \in 1..Len(outcome.attendees) :
             CanonicalEmail(outcome.attendees[k].email)) =>
        C11_IdempotentOnOwnOutput


-----------------------------------------------------------------------------
(* Properties of the account store                                         *)

\* the store as loadTokenStore reads the document now
Persisted == loadTokenStore(file)

Wrote(p) == proc[p].writes > 0 /\ proc[p].pc \notin {"saveWrite", "write"}

\* that mutation was a saveTokens
Saved(p) ==
    Wrote(p) /\ proc[p].op \notin {"removeAccount", "setDefaultAccount"}

\* the keys of the persisted accounts
PersistedKeys == {Persisted.accounts[k].email : k \in 1..Len(Persisted.accounts)}

\* C13: saving an account into a store without default makes it the default;
\* removeAccount of the default leaves as default one of the remaining
\* accounts, and null exactly when none remains; removeAccount of another
\* account leaves the default as it was.
C13_DefaultFollowsMutations ==
    \A p \in Procs :
        Wrote(p) =>
            LET before == proc[p].loaded
                email == proc[p].email
            IN  /\ (Saved(p) /\ before.defaultAccount = Null) =>
                      Persisted.defaultAccount = email
                /\ (proc[p].op = "removeAccount"
                      /\ before.defaultAccount = email) =>
                      /\ email \notin PersistedKeys
                      /\ Persisted.defaultAccount = Null <=> PersistedKeys = {}
                      /\ Persisted.defaultAccount # Null =>
                            Persisted.defaultAccount \in PersistedKeys
                /\ (proc[p].op = "removeAccount"
                      /\ before.defaultAccount # email) =>
                      Persisted.defaultAccount = before.defaultAccount

\* the default account was removed and another account took its place
C13_Witness ==
    \E p \in Procs :
        /\ Wrote(p)
        /\ proc[p].op = "removeAccount"
        /\ proc[p].loaded.defaultAccount = proc[p].email
        /\ Persisted.defaultAccount \in Emails \ {proc[p].email}

\* an account was saved into a store without default
C13_WitnessFirstAccount ==
    \E p \in Procs :
        /\ Saved(p)
        /\ proc[p].loaded = EmptyStore
        /\ Persisted.defaultAccount = proc[p].email

\* the only account was removed, or an account that was not the default
C13_WitnessOthers ==
    /\ \E p \in Procs :
        /\ Wrote(p) /\ proc[p].op = "removeAccount"
        /\ \/ Persisted = EmptyStore
           \/ proc[p].loaded.defaultAccount # proc[p].email

\* removeAccount(email) of caller p has removed the account
Removed(p) == proc[p].op = "removeAccount" /\ proc[p].result.kind = "true"

\* a saveTokens of caller p has changed the label of an existing account
Relabelled(p) ==
    /\ Saved(p)
    /\ Has(proc[p].loaded.accounts, proc[p].email)
    /\ LabelOf(proc[p].loaded.accounts, proc[p].email)
         # LabelOf(proc[p].store.accounts, proc[p].email)

\* C14: once an operation that removed an account or changed its label has
\* completed, the client cache holds no entry for that account's email.
C14_CacheInvalidated ==
    \A p \in Procs :
        (proc[p].pc = "done" /\ (Removed(p) \/ Relabelled(p))) =>
            ~Cached(proc[p].email)

\* the part of C14 about removeAccount
C14_RemovalInvalidates ==
    \A p \in Procs :
        (proc[p].pc = "done" /\ Removed(p)) => ~Cached(proc[p].email)


-----------------------------------------------------------------------------
(* Properties of resolveAccount                                            *)

\* the accounts of the store resolveAccount loaded, the placeholder left out
Configured == SelectSeq(sel.store.accounts, LAMBDA a : a.email # Legacy)

\* the accounts the hint names: by key, or by label whatever the case
HintMatches ==
    {sel.store.accounts[k].email : k \in
        {j \in 1..Len(sel.store.accounts) :
            \/ sel.store.accounts[j].email = sel.hint
            \/ /\ sel.store.accounts[j].label # Null
               /\ toLowerCase(sel.store.accounts[j].label) = toLowerCase(sel.hint)}}

AttendeeDomains ==
    {domainOf(sel.attendeeEmails[k]) : k \in 1..Len(sel.attendeeEmails)} \ {Null}

\* positions of the configured accounts whose domain an attendee has
DomainMatches ==
    {k \in 1..Len(Configured) : domainOf(Configured[k].email) \in AttendeeDomains}

\* the four rules, the first that applies
FourRules ==
    IF sel.hint # Null /\ HintMatches # {}
    THEN sel.result \in HintMatches
    ELSE IF Len(Configured) = 1
    THEN sel.result = Configured[1].email
    ELSE IF DomainMatches # {}
    THEN sel.result \in {Configured[k].email : k \in DomainMatches}
    ELSE sel.result = sel.store.defaultAccount

\* C15: resolveAccount returns what the first applicable rule gives: the
\* account the hint names by key or by label, else the only account, else an
\* account inferred from the attendee domains, else the stored default; a
\* hint that names no account falls through to the later rules.
C15_FourRulesInOrder == sel.pc = "done" => FourRules

\* the same, for the stores in which an account other than the placeholder
\* is configured
C15_OnConfiguredAccounts ==
    (sel.pc = "done" /\ Len(Configured) > 0) => FourRules

\* the first configured account, in store order, whose domain an attendee has
FirstDomainMatch ==
    Configured[CHOOSE k \in DomainMatches : \A j \in DomainMatches : k <= j].email

C16_WitnessSharedDomain ==
    /\ sel.pc = "done"
    /\ sel.hint = Null
    /\ Len(Configured) = 2
    /\ Len(sel.attendeeEmails) >= 1
    /\ DomainMatches = {2}
    /\ sel.result = Configured[2].email


-----------------------------------------------------------------------------
(* Properties of the token refresh                                         *)

\* the refresh collaborator has been invoked by caller p
RefreshInvoked(p) ==
    proc[p].refresh.st \in {"called", "answered", "succeeded", "failed"}

\* C17: refreshTokensIfNeeded invokes the refresh exactly when the credentials
\* carry an expiry and that expiry is strictly less than five minutes
\* (300000 ms) after the current time; otherwise it makes no remote call and
\* writes nothing to the store.
C17_RefreshIffExpiringSoon ==
    \A p \in Procs :
        proc[p].refresh.st # "none"
        => /\ RefreshInvoked(p)
              <=> /\ proc[p].refresh.expiry_date # 0
                  /\ proc[p].refresh.expiry_date - proc[p].refresh.now < 300000
           /\ ~RefreshInvoked(p)
              => /\ proc[p].refresh.st = "skipped"
                 /\ proc[p].writes = proc[p].refresh.writes

\* credentials that expire exactly five minutes from now are not refreshed
C17_Witness ==
    \E p \in Procs :
        /\ proc[p].refresh.st = "skipped"
        /\ proc[p].refresh.expiry_date - proc[p].refresh.now = 300000
        /\ proc[p].pc = "done"

\* credentials that expire one millisecond earlier are
C17_WitnessRefreshed ==
    \E p \in Procs :
        /\ proc[p].refresh.st = "succeeded"
        /\ proc[p].refresh.expiry_date - proc[p].refresh.now = 299999

\* credentials without an expiry are not refreshed
C17_WitnessNoExpiry ==
    \E p \in Procs :
        /\ proc[p].refresh.st = "skipped"
        /\ proc[p].refresh.expiry_date = 0
        /\ proc[p].pc = "done"

\* the entry of email in a store, when it has one
EntryOf(store, email) == store.accounts[IndexOf(store.accounts, email)]

\* the accounts other than email are the same in stores s and t
OthersUnchanged(s, t, email) ==
    LET others(store) == {store.accounts[k].email : k \in 1..Len(store.accounts)}
                         \ {email}
    IN  /\ others(s) = others(t)
        /\ \A e \in others(s) : EntryOf(s, e) = EntryOf(t, e)

C18_WitnessCached ==
    \E p \in Procs :
        /\ proc[p].refresh.st = "succeeded"
        /\ proc[p].cached

\* C19: when the refresh fails, the operation that triggered it fails with an
\* error that names the account and tells the user to authenticate again, no
\* calendar or contacts request is sent, and the persisted credentials of
\* every account are what they were.
C19_RefreshFailureFailsOperation ==
    \A p \in Procs :
        proc[p].refresh.st = "failed"
        => /\ proc[p].pc = "done"
           /\ proc[p].result = [kind |-> "refresh_error", email |-> proc[p].email]
           /\ proc[p].email # Null
           /\ Has(proc[p].refresh.store.accounts, proc[p].email)
           /\ proc[p].calls = 0
           /\ proc[p].writes = proc[p].refresh.writes
           /\ Persisted = proc[p].refresh.store

\* freeBusy, called with no account, fails on the refresh of the default
\* account in a store of two accounts
C19_Witness ==
    \E p \in Procs :
        /\ proc[p].refresh.st = "failed"
        /\ proc[p].op = "freeBusy"
        /\ Len(Persisted.accounts) = 2

\* the refresh fails on the client taken from the cache
C19_WitnessCached ==
    \E p \in Procs :
        /\ proc[p].refresh.st = "failed"
        /\ proc[p].cached


-----------------------------------------------------------------------------
(* Properties of the legacy migration                                      *)

\* getGoogle of caller p has ended, and in it the identity lookup gave an
\* email for the legacy credentials
Migrated(p) ==
    /\ proc[p].legacy # NoTokens
    /\ proc[p].pc \in {"done", "request"}

\* the store holds the account under the email found, the placeholder is
\* gone, and the email is the default
Rekeyed(p) ==
    /\ Has(Persisted.accounts, proc[p].email)
    /\ ~Has(Persisted.accounts, Legacy)
    /\ Persisted.defaultAccount = proc[p].email

C20_WitnessRefreshed ==
    \E p \in Procs : Migrated(p) /\ proc[p].refresh.st = "succeeded"

\* the refresh of the migrated credentials failed
C20_WitnessRefreshFailed ==
    \E p \in Procs : Migrated(p) /\ proc[p].refresh.st = "failed"


-----------------------------------------------------------------------------
(* Properties of retryWithBackoff and isRetryableError                     *)

\* the last rejection of operation() was a non-retryable error
FatalRaised ==
    /\ retry.raised # NoThrown
    /\ ~isRetryableError(retry.raised.error)

\* C21: when an invocation of the operation fails with a non-retryable
\* error, the operation is not invoked again, no delay follows, and the very
\* same error value reaches the caller, unwrapped.
C21_FatalErrorPropagatesAtOnce ==
    FatalRaised
    => /\ retry.pc = "done"
       /\ retry.result = [kind |-> "error", error |-> retry.raised]
       /\ retry.invocations = retry.raised.id
       /\ Len(retry.delays) = retry.raised.id - 1

\* a 404 on the second invocation, after one retried failure
C21_Witness ==
    /\ FatalRaised
    /\ retry.raised.error.status = 404
    /\ retry.raised.id = 2
    /\ retry.maxRetries = DefaultMaxRetries
    /\ retry.result.error.id = 2
    /\ retry.delays = <<1000>>

\* the delays are 1 s, 2 s, 4 s, ... in this order
PowersOfTwoSeconds(delays) ==
    \A k \in 1..Len(delays) : delays[k] = 2^(k - 1) * 1000

\* C22: the wait after failed attempt k (from 0) that is followed by another
\* attempt is exactly 2^k seconds; there is a delay only between two
\* attempts, none after the last attempt and none after a success. An
\* operation that fails twice with 503 and then succeeds returns its value
\* after two delays, of 1 s and 2 s.
C22_DelaySchedule ==
    /\ PowersOfTwoSeconds(retry.delays)
    /\ retry.pc \in {"operation", "done"}
       => Len(retry.delays) = retry.invocations - 1
    /\ retry.pc = "delay"
       => /\ Len(retry.delays) = retry.invocations
          /\ retry.attempt < retry.maxRetries
    /\ Len(retry.delays) <= retry.maxRetries
    /\ (retry.result.kind = "value" /\ retry.invocations = 3)
       => retry.delays = <<1000, 2000>>

\* two failures with 503, then a success
C22_Witness ==
    /\ retry.pc = "done"
    /\ retry.result.kind = "value"
    /\ retry.invocations = 3
    /\ retry.previous.id = 1 /\ retry.previous.error.status = 503
    /\ retry.raised.id = 2 /\ retry.raised.error.status = 503
    /\ retry.delays = <<1000, 2000>>

\* every attempt fails: four delays, none after the fifth attempt
C22_WitnessExhausted ==
    /\ retry.pc = "done"
    /\ retry.result.kind = "error"
    /\ retry.invocations = 5
    /\ retry.delays = <<1000, 2000, 4000, 8000>>

\* the call has ended after maxRetries + 1 attempts that all failed
Exhausted ==
    /\ retry.pc = "done"
    /\ retry.invocations = retry.maxRetries + 1
    /\ retry.raised.id = retry.invocations
    /\ isRetryableError(retry.raised.error)

\* C23: retryWithBackoff ends whenever every invocation of the operation
\* ends; the operation is invoked at most maxRetries + 1 times (5 by
\* default), and when every attempt fails with a retryable error the error
\* of the last attempt reaches the caller unchanged.
C23_BoundedAttempts ==
    /\ [](/\ retry.invocations <= retry.maxRetries + 1
          /\ retry.maxRetries = DefaultMaxRetries => retry.invocations <= 5
          /\ Exhausted => retry.result = [kind |-> "error", error |-> retry.raised])
    /\ (retry.pc \in {"operation", "delay"}) ~> (retry.pc = "done")

\* five attempts by default, the fifth failing with a retryable 503
C23_Witness ==
    /\ Exhausted
    /\ retry.maxRetries = DefaultMaxRetries
    /\ retry.invocations = 5
    /\ retry.raised.error.status = 503
    /\ retry.result.error.id = 5

\* what the operation last rejected with has been classified by the catch
\* block: the call went on to a delay or another attempt only if the error
\* was taken as retryable
Classified == retry.raised # NoThrown

\* the attempt that rejected was not the last one allowed
NotLastAttempt == retry.raised.id <= retry.maxRetries

\* the call went on after the last rejection
Retried ==
    \/ retry.pc = "delay"
    \/ retry.invocations > retry.raised.id

\* the class of errors the specification lists
ListedRetryable(e) ==
    \/ e.code \in {"ECONNRESET", "ETIMEDOUT", "ENOTFOUND"}
    \/ e.status \in {429, 500, 502, 503, 504}
    \/ \E k \in 1..Len(e.reasons) :
         e.reasons[k] \in {"rateLimitExceeded", "quotaExceeded",
                           "userRateLimitExceeded", "backendError", "internalError"}
    \/ \E i \in 1..Len(e.message) :
         \/ /\ i + 4 <= Len(e.message)
            /\ SubSeq(e.message, i, i + 4) = <<"q", "u", "o", "t", "a">>
         \/ /\ i + 9 <= Len(e.message)
            /\ SubSeq(e.message, i, i + 9) =
                  <<"r", "a", "t", "e", " ", "l", "i", "m", "i", "t">>

\* C24: isRetryableError takes an error as retryable exactly when its code is
\* ECONNRESET, ETIMEDOUT or ENOTFOUND, or its HTTP status is 429, 500, 502,
\* 503 or 504, or one of its reasons is rateLimitExceeded, quotaExceeded,
\* userRateLimitExceeded, backendError or internalError, or its message
\* contains 'quota' or 'rate limit'; every other error is fatal and is not
\* retried.
C24_RetryableClassification ==
    /\ \A e \in ErrorShapes : isRetryableError(e) <=> ListedRetryable(e)
    /\ Classified
       => /\ isRetryableError(retry.raised.error) <=> ListedRetryable(retry.raised.error)
          /\ NotLastAttempt => (Retried <=> ListedRetryable(retry.raised.error))
          /\ ~ListedRetryable(retry.raised.error) => ~Retried

\* a 403 whose only sign of transience is the reason rateLimitExceeded is
\* retried
C24_Witness ==
    /\ Classified
    /\ retry.raised.error.status = 403
    /\ retry.raised.error.reasons = <<"rateLimitExceeded">>
    /\ retry.pc = "delay"

\* a 401 is fatal
C24_WitnessFatal ==
    /\ Classified
    /\ retry.raised.error.status = 401
    /\ retry.raised.id = 1
    /\ retry.maxRetries = DefaultMaxRetries
    /\ retry.pc = "done"
    /\ retry.result.kind = "error"

\* a message that has the words in another case is fatal
C24_WitnessCase ==
    /\ Classified
    /\ retry.raised.error.message = MsgRateUpper
    /\ retry.raised.id = 1
    /\ retry.maxRetries = DefaultMaxRetries
    /\ retry.pc = "done"


-----------------------------------------------------------------------------
(* Properties of the tool handlers                                         *)

PrimaryCalls == {"createMeetEvent", "updateMeetEvent", "deleteMeetEvent"}
MirrorCalls == {"addToAppleCalendar", "updateAppleCalendarEvent",
                "deleteAppleCalendarEvent"}
MirroringTools == {"create_meet_and_calendar", "plan_and_schedule",
                   "update_meeting", "delete_meeting"}

\* the positions in the call log of the calls in set S
CallsIn(S) == {k \in 1..Len(tool.calls) : tool.calls[k] \in S}

\* C25: in create_meet_and_calendar, plan_and_schedule, update_meeting and
\* delete_meeting a failure of the Apple Calendar action never makes the tool
\* call fail and never undoes the Google Calendar action: the reply reports
\* the primary action as done with the mirror failure as a warning, and no
\* compensating delete or patch is sent to the Google calendar.
C25_MirrorFailureIsSoft ==
    (tool.name \in MirroringTools /\ tool.mirror = "failed")
    => /\ tool.reply.kind = "error" => tool.primary = "failed"
       /\ (tool.pc = "done" /\ tool.primary = "ok")
          => tool.reply = [kind |-> "done", error |-> "none", warning |-> TRUE]
       /\ Cardinality(CallsIn(PrimaryCalls)) <= 1
       /\ tool.primary = "ok"
          => \A k \in CallsIn(PrimaryCalls) : tool.calls[k] = primaryCall(tool.name)
       /\ tool.name # "delete_meeting"
          => /\ tool.primary = "ok"
             /\ \A k \in CallsIn(PrimaryCalls), m \in CallsIn(MirrorCalls) : k < m

\* the event is created and the Apple Calendar action fails
C25_Witness ==
    /\ tool.name = "create_meet_and_calendar"
    /\ tool.pc = "done"
    /\ tool.primary = "ok"
    /\ tool.mirror = "failed"
    /\ tool.reply.kind = "done"
    /\ tool.reply.warning

\* the Apple Calendar deletion fails and the event is deleted
C25_WitnessDelete ==
    /\ tool.name = "delete_meeting"
    /\ tool.pc = "done"
    /\ tool.primary = "ok"
    /\ tool.mirror = "failed"
    /\ tool.reply.warning

\* the mirror action is called only once the primary action has succeeded,
\* and a failed primary action leaves the mirror calendar as it was
MirrorAfterPrimary ==
    /\ CallsIn(MirrorCalls) # {}
       => /\ tool.primary = "ok"
          /\ \A m \in CallsIn(MirrorCalls) :
               \E k \in CallsIn(PrimaryCalls) : k < m
    /\ tool.primary = "failed" => tool.mirror = "none"

\* C26: in create, plan-and-book, update and delete the mirror action on the
\* local calendar is performed only after the primary calendar action has
\* succeeded, so that a call whose primary action fails leaves the mirror
\* calendar unchanged.
C26_MirrorOnlyAfterPrimary ==
    tool.name \in MirroringTools => MirrorAfterPrimary

\* the same for the three tools other than delete_meeting
C26_ExceptDelete ==
    tool.name \in MirroringTools \ {"delete_meeting"} => MirrorAfterPrimary

\* delete_meeting has removed the event from the Apple calendar and then
\* failed to delete it from the Google calendar
C26_DeleteMirrorsFirst ==
    /\ tool.name = "delete_meeting"
    /\ tool.pc = "done"
    /\ tool.mirror = "ok"
    /\ tool.primary = "failed"
    /\ tool.reply.kind = "error"

\* resolveAttendeesToEmails has rejected
ResolutionFailed == tool.resolution \in ResolutionErrors

\* C27: a resolution failure (empty input, invalid email, contact not found,
\* ambiguous contact, empty attendee list) is fatal to the tool call in which
\* it occurs: in create_meet_and_calendar, plan_and_schedule and
\* update_meeting no primary calendar event is created or modified and no
\* mirror action is performed when an attendee fails to resolve.
C27_ResolutionFailureIsFatal ==
    ResolutionFailed
    => /\ tool.pc = "done"
       /\ tool.reply = [kind |-> "error", error |-> tool.resolution,
                        warning |-> FALSE]
       /\ CallsIn(PrimaryCalls) = {}
       /\ CallsIn(MirrorCalls) = {}
       /\ tool.primary = "none" /\ tool.mirror = "none"
       /\ tool.calls[Len(tool.calls)] = "resolveAttendeesToEmails"

\* update_meeting fails on an ambiguous attendee after it has read the event
C27_Witness ==
    /\ ResolutionFailed
    /\ tool.name = "update_meeting"
    /\ tool.reply.error = "ambiguous"
    /\ tool.calls = <<"getMeetingDetails", "resolveAttendeesToEmails">>

\* plan_and_schedule fails on a contact that is not found
C27_WitnessPlan ==
    /\ ResolutionFailed
    /\ tool.name = "plan_and_schedule"
    /\ tool.reply.error = "not_found"
    /\ tool.calls = <<"resolveAttendeesToEmails">>

\* start and end as the handler takes them: from the phrase when one is
\* given, else from the two timestamps
StartOf(args) ==
    IF args.window # NoPhrase THEN parseDateWindow(args.window).startISO
    ELSE args.startISO

EndOf(args) ==
    IF args.window # NoPhrase THEN parseDateWindow(args.window).endISO
    ELSE args.endISO

NotBefore(s, e) ==
    s.kind = "iso" /\ e.kind = "iso"
    /\ (s.day > e.day \/ (s.day = e.day /\ s.ms >= e.ms))

LongerThan(s, e, days) ==
    s.kind = "iso" /\ e.kind = "iso"
    /\ (e.day - s.day > days \/ (e.day - s.day = days /\ e.ms > s.ms))

\* the invalid inputs the specification lists, tool by tool
InvalidInput(name, args) ==
    CASE name \in {"find_slots", "plan_and_schedule"} ->
            \/ args.window # NoPhrase
               /\ (args.startISO # Absent \/ args.endISO # Absent)
            \/ args.window = NoPhrase
               /\ (args.startISO = Absent \/ args.endISO = Absent)
            \/ StartOf(args).kind = "text" \/ EndOf(args).kind = "text"
            \/ NotBefore(StartOf(args), EndOf(args))
            \/ LongerThan(StartOf(args), EndOf(args), 90)
            \/ /\ name = "plan_and_schedule"
               /\ (args.durationMinutes < 1 \/ args.durationMinutes > 1440)
      [] name = "create_meet_and_calendar" ->
            \/ args.startISO.kind # "iso" \/ args.endISO.kind # "iso"
            \/ NotBefore(args.startISO, args.endISO)
      [] name = "list_meetings" ->
            \/ args.startISO.kind # "iso" \/ args.endISO.kind # "iso"
            \/ NotBefore(args.startISO, args.endISO)
            \/ LongerThan(args.startISO, args.endISO, 365)
      [] name = "update_meeting" ->
            \/ args.startISO.kind = "text" \/ args.endISO.kind = "text"
            \/ NotBefore(args.startISO, args.endISO)
      [] OTHER -> FALSE

\* C28: in find_slots, plan_and_schedule, create_meet_and_calendar,
\* list_meetings and update_meeting the input is validated before any
\* collaborator is invoked: when `window` and the ISO start/end are both or
\* neither supplied, a timestamp is malformed, start is not before end, the
\* window is longer than the maximum, or the duration is outside 1..1440
\* minutes, the call fails with no contacts lookup, free/busy query, event
\* call or mirror call made, and so nothing retried.
C28_ValidationBeforeCollaborators ==
    (tool.name # "idle" /\ InvalidInput(tool.name, tool.args))
    => /\ tool.pc = "done"
       /\ tool.calls = <<>>
       /\ tool.reply = [kind |-> "error", error |-> "validation", warning |-> FALSE]
       /\ tool.resolution = "none" /\ tool.primary = "none" /\ tool.mirror = "none"

\* plan_and_schedule with a good window and a duration of 1441 minutes
C28_Witness ==
    /\ tool.name = "plan_and_schedule"
    /\ tool.args.window = Tomorrow
    /\ tool.args.startISO = Absent /\ tool.args.endISO = Absent
    /\ tool.args.durationMinutes = 1441
    /\ tool.pc = "done"
    /\ tool.calls = <<>>
    /\ tool.reply.error = "validation"

\* find_slots with a window of 90 days and ten minutes
C28_WitnessTooLong ==
    /\ tool.name = "find_slots"
    /\ tool.args.startISO = Iso(0, 0)
    /\ tool.args.endISO = Iso(90, 10 * MsPerMinute)
    /\ tool.pc = "done"
    /\ tool.reply.error = "validation"

\* update_meeting with start and end supplied in the wrong order
C28_WitnessUpdate ==
    /\ tool.name = "update_meeting"
    /\ tool.args.startISO = Iso(90, 0)
    /\ tool.args.endISO = Iso(0, 0)
    /\ tool.pc = "done"
    /\ tool.calls = <<>>

\* a valid input does reach the collaborators: a window of exactly 90 days
C28_WitnessValid ==
    /\ tool.name = "find_slots"
    /\ tool.args.startISO = Iso(0, 0)
    /\ tool.args.endISO = Iso(90, 0)
    /\ tool.calls = <<"resolveAttendeesToEmails", "freeBusy">>

-----------------------------------------------------------------------------
(* Properties of concurrent account operations                             *)

\* both callers' operations refreshed the credentials of the same account
BothRefreshed ==
    /\ \A p \in Procs : proc[p].refresh.st = "succeeded"
    /\ proc[1].email = proc[2].email

\* the entries of the persisted store under email
EntriesOf(email) ==
    {k \in 1..Len(Persisted.accounts) : Persisted.accounts[k].email = email}

\* C29: two concurrent operations on one account whose credentials are within
\* the refresh buffer may each invoke the refresh; once both have completed,
\* however their steps interleaved, the store holds exactly one entry for
\* the account, with the credentials one of the two refreshes produced,
\* defaultAccount and the other accounts are unchanged, and both operations
\* have succeeded.
C29_ConcurrentRefreshTolerated ==
    BothRefreshed
    => LET email == proc[1].email
       IN  /\ Cardinality(EntriesOf(email)) = 1
           /\ TokensOf(Persisted.accounts, email)
                \in {newCredentials(p) : p \in Procs}
           /\ \A p \in Procs :
                /\ Persisted.defaultAccount = proc[p].refresh.store.defaultAccount
                /\ OthersUnchanged(proc[p].refresh.store, Persisted, email)
                /\ proc[p].pc \in {"request", "done"}
                /\ proc[p].result = [kind |-> "clients", email |-> email]

\* both refreshes were invoked on the credentials of the same document, and
\* both saves loaded the document before either wrote
C29_Witness ==
    /\ BothRefreshed
    /\ proc[1].refresh.store = proc[2].refresh.store
    /\ proc[1].loaded = proc[2].loaded
    /\ TokensOf(proc[1].loaded.accounts, proc[1].email) = ExpiringTokens
    /\ \A p \in Procs : ~proc[p].cached

\* the account refreshed twice is not the default of a store of two accounts
C29_WitnessOtherAccount ==
    /\ BothRefreshed
    /\ proc[1].email = EmailBo
    /\ Persisted.defaultAccount = EmailAl
    /\ TokensOf(Persisted.accounts, EmailAl) = ExpiringTokens

\* the second save loaded the document the first save had written
C29_WitnessInTurn ==
    /\ BothRefreshed
    /\ \E p \in Procs, q \in Procs :
         /\ p # q
         /\ TokensOf(proc[p].loaded.accounts, proc[p].email) = newCredentials(q)
         /\ TokensOf(Persisted.accounts, proc[p].email) = newCredentials(p)

\* the placeholder account is identified and refreshed by both operations
C29_WitnessLegacy ==
    /\ BothRefreshed
    /\ \A p \in Procs : proc[p].legacy # NoTokens

\* caller p is at the saveTokenStore of its mutation
Writing(p) == proc[p].pc \in {"saveWrite", "write"}

\* the store that mutation made of the document it loaded
Mutated(p) ==
    CASE proc[p].op = "removeAccount" ->
            removeAccountUpdate(proc[p].loaded, proc[p].email)
      [] proc[p].op = "setDefaultAccount" ->
            setDefaultAccountUpdate(proc[p].loaded, proc[p].email)
      [] OTHER ->
            saveTokensUpdate(proc[p].loaded, proc[p].tokens, proc[p].email,
                             proc[p].label)

\* C30: the mutations of the account store are read-modify-writes of the
\* whole document with no lock: each write leaves the document its mutation
\* made of the one it loaded, whatever was written in between, so of two
\* concurrent mutations the later write can discard the effect of the other
\* (an account saved by one is absent after the other's write).
C30_LaterWriteReplacesDocument ==
    [][\A p \in Procs :
         (Writing(p) /\ proc'[p].pc # proc[p].pc)
         => file' = saveTokenStore(Mutated(p))]_vars

\* an account was saved by one caller while setDefaultAccount of the other
\* was between its load and its write: the account is absent after that write
C30_Witness ==
    \E p \in Procs, q \in Procs :
        /\ p # q
        /\ Saved(p) /\ proc[p].result.kind = "auth"
        /\ proc[q].op = "setDefaultAccount" /\ proc[q].result.kind = "true"
        /\ proc[q].email # proc[p].email
        /\ ~Has(proc[p].loaded.accounts, proc[p].email)
        /\ ~Has(proc[q].loaded.accounts, proc[p].email)
        /\ proc[p].email \notin PersistedKeys
        /\ Persisted = proc[q].store

\* removeAccount has completed and the account is in the document again,
\* written back by a saveTokens for another account
C30_WitnessRemovalUndone ==
    \E p \in Procs, q \in Procs :
        /\ p # q
        /\ Removed(p)
        /\ Saved(q) /\ proc[q].email # proc[p].email
        /\ Has(proc[q].loaded.accounts, proc[p].email)
        /\ proc[p].email \in PersistedKeys

\* two accounts were saved into an empty store and one of them is left
C30_WitnessTwoSaves ==
    \E p \in Procs, q \in Procs :
        /\ Saved(p) /\ Saved(q)
        /\ proc[p].loaded = EmptyStore /\ proc[q].loaded = EmptyStore
        /\ proc[p].email # proc[q].email
        /\ PersistedKeys = {proc[q].email}

-----------------------------------------------------------------------------
(* Properties of the window plan_and_schedule books                        *)

\* plan_and_schedule has created the event
Booked == op = "plan_and_schedule" /\ reply.kind = "scheduled"

\* the window of that event, read back from the startISO and endISO sent
BookedWindow ==
    [start |-> reply.slots[1].startISO, end |-> reply.slots[1].endISO]

\* C31: the window booked by plan_and_schedule is exactly durationMinutes
\* long and overlaps no busy interval the free/busy query returned for any
\* queried calendar or attendee.
C31_BookedWindowIsFree ==
    Booked
    => /\ BookedWindow.end - BookedWindow.start = duration * MsPerMinute
       /\ \A b \in AllBusy : ~areIntervalsOverlapping(BookedWindow, b)

\* the same, for search windows that start on a whole second
C31_OnWholeSeconds ==
    (Booked /\ window.start % 1000 = 0)
    => /\ BookedWindow.end - BookedWindow.start = duration * MsPerMinute
       /\ \A b \in AllBusy : ~areIntervalsOverlapping(BookedWindow, b)

\* a window that starts half a second after a busy interval's start: the
\* booked window begins inside that busy interval
C31_BookedWhileBusy ==
    /\ Booked
    /\ window.start = 500
    /\ BookedWindow.start = 0
    /\ \E b \in AllBusy : b.start = 0 /\ b.end = 500

\* C32: the window booked by plan_and_schedule lies inside the requested
\* search window: it starts at or after the window's start and ends at or
\* before the window's end.
C32_BookedInsideSearchWindow ==
    Booked
    => /\ window.start <= BookedWindow.start
       /\ BookedWindow.end <= window.end

\* a search window of 7 minutes and a meeting of 10: the second slot of the
\* 5-minute grid ends after the window, and the event is booked on both
C32_BookedPastWindowEnd ==
    /\ Booked
    /\ window = [start |-> 0, end |-> 7 * MsPerMinute]
    /\ duration = 10
    /\ BookedWindow = [start |-> 0, end |-> 10 * MsPerMinute]

\* a search window that starts half a second past the second: the event is
\* booked from the whole second before it
C32_BookedBeforeWindowStart ==
    /\ Booked
    /\ window.start = 500
    /\ BookedWindow.start = 0

\* the booked window is inside the search window when the window starts on a
\* whole second and its length is a multiple of the grid's slot
C32_OnGridWindows ==
    (Booked /\ window.start % 1000 = 0
       /\ (window.end - window.start) % (slotMin * MsPerMinute) = 0)
    => /\ window.start <= BookedWindow.start
       /\ BookedWindow.end <= window.end

-----------------------------------------------------------------------------
(* Properties of createMeetEvent                                           *)

\* C33: one call of create_meet_and_calendar or plan_and_schedule creates at
\* most one event in the primary calendar, also when retryWithBackoff sends
\* the insertion again after a retryable failure, a failure reported after
\* the remote side had applied the insertion included.
C33_AtMostOneEventCreated ==
    create.events <= 1

\* an insert timed out after the calendar had applied it, and the insert
\* sent again was answered with a second event
C33_TwoEvents ==
    /\ create.pc = "done"
    /\ create.result = "event"
    /\ create.invocations = 2
    /\ create.raised.code = "ETIMEDOUT"
    /\ create.events = 2

\* apart from the inserts applied and then reported as failed, the call
\* leaves at most one event
C33_ApartFromLostAnswers ==
    /\ create.events - create.lost <= 1
    /\ create.events <= create.invocations

-----------------------------------------------------------------------------
(* Properties of the events the tool handlers send                         *)

\* pickContiguous returned null in plan_and_schedule
NoSpanFound == tool.name = "plan_and_schedule" /\ tool.found = "no"

\* C34: when plan_and_schedule finds no contiguous span (pickContiguous
\* answers not found) it creates no primary calendar event, performs no
\* mirror action, and returns the normal "no common slot" response, not an
\* error.
C34_NoSlotIsANormalReply ==
    NoSpanFound
    => /\ tool.pc = "done"
       /\ tool.reply = [kind |-> "no_slot", error |-> "none", warning |-> FALSE]
       /\ tool.calls = <<"resolveAttendeesToEmails", "freeBusy">>
       /\ CallsIn(PrimaryCalls) = {}
       /\ CallsIn(MirrorCalls) = {}
       /\ tool.primary = "none" /\ tool.mirror = "none"
       /\ tool.request = NoRequest

\* no span in the window of tomorrow
C34_Witness ==
    /\ NoSpanFound
    /\ tool.args.window = Tomorrow
    /\ tool.args.durationMinutes = 1440
    /\ tool.reply.kind = "no_slot"
    /\ tool.pc = "done"

\* with a span the event is created and mirrored
C34_WitnessFound ==
    /\ tool.name = "plan_and_schedule"
    /\ tool.found = "yes"
    /\ tool.calls = <<"resolveAttendeesToEmails", "freeBusy", "createMeetEvent",
                      "addToAppleCalendar">>
    /\ tool.reply.kind = "done"

\* update_meeting or delete_meeting has made its mirror call
MirrorLookedUp ==
    /\ tool.name \in {"update_meeting", "delete_meeting"}
    /\ CallsIn(MirrorCalls) # {}

\* the index of the first call of the log that is in S (0 when none is)
FirstCall(S) ==
    IF \E k \in 1..Len(tool.calls) : tool.calls[k] \in S
    THEN CHOOSE k \in 1..Len(tool.calls) :
            /\ tool.calls[k] \in S
            /\ \A j \in 1..(k - 1) : tool.calls[j] \notin S
    ELSE 0

\* the read of the event comes first in update_meeting and delete_meeting,
\* before the patch or the delete and before the mirror action
ReadBeforeMutation ==
    (tool.name \in {"update_meeting", "delete_meeting"} /\ tool.calls # <<>>)
    => /\ tool.calls[1] = "getMeetingDetails"
       /\ FirstCall(PrimaryCalls) # 1 /\ FirstCall(MirrorCalls) # 1

\* C35: update_meeting and delete_meeting read the event's title and start
\* from the primary calendar before they patch or delete it, and the mirror
\* update or delete looks the mirror event up by exactly that title and
\* start instant, as they were before the change, never by the new values
\* supplied in the update.
C35_MirrorLookupByOriginal ==
    /\ ReadBeforeMutation
    /\ MirrorLookedUp
       => /\ tool.lookup.title = tool.event.summary
          /\ tool.lookup.start = tool.event.start

\* the same for events that have a title
C35_TitledEvents ==
    /\ ReadBeforeMutation
    /\ (MirrorLookedUp /\ tool.event.summary # "")
       => /\ tool.lookup.title = tool.event.summary
          /\ tool.lookup.start = tool.event.start
          /\ tool.lookup.title # tool.args.title

\* the lookup never uses the new title or the new start of the update
C35_NeverByNewValues ==
    (MirrorLookedUp /\ tool.name = "update_meeting")
    => /\ tool.lookup.title # tool.args.title
       /\ tool.lookup.title = getMeetingDetails(tool.event).title
       /\ tool.lookup.start = tool.event.start

\* an event without a title is looked up in the mirror calendar under the
\* title "(No title)"
C35_UntitledLookedUpByPlaceholder ==
    /\ MirrorLookedUp
    /\ tool.event.summary = ""
    /\ tool.lookup.title = "(No title)"

\* the title and the start are changed, and the mirror event is looked up by
\* the ones read before the patch
C35_RetitledAndMoved ==
    /\ MirrorLookedUp
    /\ tool.name = "update_meeting"
    /\ tool.args.title = TitleRetro
    /\ tool.args.startISO = Iso(90, 0)
    /\ tool.event.start = Iso(0, 0)
    /\ tool.lookup = [title |-> TitleStandup, start |-> Iso(0, 0)]

\* a tool call has sent createMeetEvent or updateMeetEvent
EventSent ==
    /\ tool.name \in {"create_meet_and_calendar", "plan_and_schedule",
                      "update_meeting"}
    /\ CallsIn(PrimaryCalls) # {}

\* start and end of the event as the request leaves it: events.insert stores
\* the two it is sent, events.patch replaces the ones it is sent and keeps
\* the others
EventAfter ==
    IF tool.name = "update_meeting"
    THEN [start |-> IF tool.request.start # Absent THEN tool.request.start
                    ELSE tool.event.start,
          end   |-> IF tool.request.end # Absent THEN tool.request.end
                    ELSE tool.event.end]
    ELSE tool.request

\* start is strictly before end
Before(span) ==
    /\ span.start.kind = "iso" /\ span.end.kind = "iso"
    /\ \/ span.start.day < span.end.day
       \/ span.start.day = span.end.day /\ span.start.ms < span.end.ms

\* C36: no tool call sends the primary calendar an event whose start is not
\* strictly before its end: every event created by create_meet_and_calendar
\* or plan_and_schedule has start < end, and every update_meeting call leaves
\* the event with start < end, also when only one of startISO and endISO is
\* supplied.
C36_StartBeforeEnd ==
    EventSent => Before(EventAfter)

\* the same for the calls that send both start and end, or neither
C36_WhenBothOrNeitherSent ==
    (EventSent /\ (tool.request.start = Absent <=> tool.request.end = Absent))
    => Before(EventAfter)

\* update_meeting with only startISO, a day after the event's end
C36_StartMovedPastEnd ==
    /\ tool.name = "update_meeting"
    /\ tool.pc = "primary"
    /\ tool.args.startISO = Iso(90, 0) /\ tool.args.endISO = Absent
    /\ tool.event.end = Iso(0, 10 * MsPerMinute)
    /\ EventAfter = [start |-> Iso(90, 0), end |-> Iso(0, 10 * MsPerMinute)]

\* update_meeting with only endISO, at the event's start
C36_EndMovedToStart ==
    /\ tool.name = "update_meeting"
    /\ CallsIn(PrimaryCalls) # {}
    /\ tool.args.startISO = Absent /\ tool.args.endISO = Iso(0, 0)
    /\ tool.event.start = Iso(0, 0)
    /\ EventAfter = [start |-> Iso(0, 0), end |-> Iso(0, 0)]

-----------------------------------------------------------------------------
(* Properties of the stores reached from an empty store                    *)

\* C37: in every store reached from an empty store by saveTokens,
\* removeAccount and setDefaultAccount, defaultAccount is not null whenever
\* an account is configured; so resolveAccount returns null only when no
\* account is configured.
C37_DefaultWheneverConfigured ==
    /\ PersistedKeys # {} => /\ Persisted.defaultAccount # Null
                             /\ Persisted.defaultAccount \in PersistedKeys
    /\ Legacy \notin PersistedKeys
    /\ (sel.pc = "done" /\ sel.result = Null) => sel.store.accounts = <<>>

\* two accounts were saved and the default one removed: the other account is
\* the default
C37_Witness ==
    /\ proc[1].op = "removeAccount" /\ proc[1].result.kind = "true"
    /\ Len(proc[1].loaded.accounts) = 2
    /\ proc[1].loaded.defaultAccount = proc[1].email
    /\ Cardinality(PersistedKeys) = 1
    /\ Persisted.defaultAccount \in PersistedKeys

\* resolveAccount returns null for the store without accounts
C37_WitnessNull ==
    /\ sel.pc = "done" /\ sel.result = Null
    /\ sel.attendeeEmails # <<>>
    /\ Persisted = EmptyStore

\* resolveAccount falls through to the stored default of two accounts
C37_WitnessDefault ==
    /\ sel.pc = "done"
    /\ Len(sel.store.accounts) = 2
    /\ sel.hint = Null /\ DomainMatches = {}
    /\ sel.result = sel.store.defaultAccount
    /\ sel.result # Null

-----------------------------------------------------------------------------
(* Properties of saves without a label and of refused mutations            *)

\* caller p has a saveTokens without label for an account the loaded store
\* already holds, computed and not yet written, or written
SavesExisting(p) ==
    /\ proc[p].pc = "saveWrite" \/ Saved(p)
    /\ proc[p].label = Null
    /\ proc[p].email # Null
    /\ Has(proc[p].loaded.accounts, proc[p].email)

\* C38: saving credentials for an existing account without a label changes
\* only the credentials of that account: its label is kept, defaultAccount is
\* unchanged when it named a real account, the entries of the other accounts
\* are unchanged, and that is the document written.
C38_SaveWithoutLabelKeepsTheRest ==
    \A p \in Procs :
        SavesExisting(p) =>
        LET before == proc[p].loaded
            after  == proc[p].store
            email  == proc[p].email
        IN  /\ Has(after.accounts, email)
            /\ LabelOf(after.accounts, email) = LabelOf(before.accounts, email)
            /\ Keys(after.accounts) = Keys(before.accounts)
            /\ OthersUnchanged(before, after, email)
            /\ before.defaultAccount \notin {Null, Legacy}
                 => after.defaultAccount = before.defaultAccount
            /\ Saved(p) => Persisted = after

\* the refresh of a labelled account that is not the default has been
\* written with new credentials
C38_Witness ==
    \E p \in Procs :
        /\ SavesExisting(p) /\ Saved(p)
        /\ proc[p].after = "refreshed"
        /\ LabelOf(proc[p].loaded.accounts, proc[p].email) # Null
        /\ proc[p].loaded.defaultAccount \notin {Null, Legacy, proc[p].email}
        /\ TokensOf(Persisted.accounts, proc[p].email)
             # TokensOf(proc[p].loaded.accounts, proc[p].email)

\* an account is authenticated again without a label
C38_WitnessAuthenticatedAgain ==
    \E p \in Procs :
        /\ SavesExisting(p) /\ Saved(p)
        /\ proc[p].op = "authenticateAccount"

\* the save is for the placeholder account, which is the default
C38_WitnessPlaceholder ==
    \E p \in Procs :
        /\ SavesExisting(p)
        /\ proc[p].loaded.defaultAccount = Legacy

\* removeAccount or setDefaultAccount of caller p has loaded a store in which
\* its email keys no account
Refused(p) ==
    /\ proc[p].op \in {"removeAccount", "setDefaultAccount"}
    /\ proc[p].pc = "done"
    /\ ~Has(proc[p].loaded.accounts, proc[p].email)

C39_WitnessSetDefault ==
    \E p \in Procs :
        /\ Refused(p) /\ proc[p].op = "setDefaultAccount"
        /\ Persisted.defaultAccount \in PersistedKeys

\* removeAccount is refused for an account another caller removed first
C39_WitnessRemovedTwice ==
    \E p, q \in Procs :
        /\ Refused(p) /\ proc[p].op = "removeAccount"
        /\ Removed(q) /\ proc[q].email = proc[p].email

\* the calls that are not refused return true
C39_WitnessAccepted ==
    \E p \in Procs :
        /\ proc[p].op = "setDefaultAccount" /\ proc[p].result.kind = "true"
        /\ Persisted.defaultAccount = proc[p].email

=============================================================================
